---- MODULE Spec2Model ----
(***************************************************************************)
(* Codecat: the file discovery and classification pipeline.                *)
(*                                                                         *)
(*   Classifier  src/src/codecat/file_processor.py  (process_file)         *)
(*   Scanner     src/src/codecat/file_scanner.py    (scan_project)         *)
(*                                                                         *)
(* Bytes are integers 0..255, decoded text is a sequence of code points,   *)
(* paths are sequences of one-character strings with "/" as separator.     *)
(***************************************************************************)
EXTENDS Integers, Sequences, FiniteSets, TLC

VARIABLES
    \* ---- classifier: one call of process_file ----
    p_file,      \* the file on disk: [err, bytes]
    p_path,      \* file_path, as [inside, parts]
    p_stop,      \* config["stop_on_error"]
    p_pc,        \* "call" | "returned" | "raised"
    p_out,       \* the ProcessedFileData returned, or the exception raised
    \* ---- scanner: one call of scan_project ----
    s_config,    \* config
    s_root,      \* project_root_path, the directory the walk starts at
    s_links,     \* the symbolic links to files: [dir, name, target]
    s_dirlinks,  \* the symbolic links to directories: [dir, name, target]
    s_status_indicator,  \* status_indicator: None, or the text it shows
    s_size,      \* st_size of every regular file
    s_statfail,  \* the files whose stat() fails
    s_stack,     \* the directories os.walk has still to yield, next first
    s_included,  \* included_files_set
    s_pc,        \* "idle" | "walking" | "done" | "raised"
    s_result,    \* the list returned
    s_listed,    \* the directories whose entries were listed
    s_relisted,  \* the directories whose entries were listed more than once
    s_evaluated, \* the directories the pruning rule was evaluated on
    s_pruned,    \* the directories the pruning rule excluded
    s_resolved,  \* the directory entries resolve() was called on
    s_statted,   \* the files stat() was called on
    \* ---- orchestrator: one call of _process_files_parallel ----
    r_files_to_scan,      \* files_to_scan, each entry [path, file]
    r_stop,               \* effective_config["stop_on_error"]
    r_futures,            \* each future: "queued" | "running" | "finished"
    r_pending,            \* the futures as_completed has still to yield
    r_processed_results,  \* processed_results, in the order of completion
    r_pc,                 \* "idle" | "collecting" | "shutdown" | "returned" | "exit"
    r_out,                \* the list returned
    r_exit_code,          \* the code of the typer.Exit that left the function
    r_late,               \* the files started after typer.Exit was raised
    \* ---- concurrent calls of process_file on the worker threads ----
    c_calls,     \* the arguments of each call and its file on disk
    c_stop,      \* config["stop_on_error"], the same dict for every call
    c_pc,        \* where each call is: "read" | "classify" | "decode" | "done"
    c_frame,     \* the local variables of the calls, by stack frame
    c_out,       \* what each call returned or raised
    \* cli_app.py: run, given several times on one project
    u_disk,               \* the files of the project directory: name -> content
    u_user_config,        \* what .codecat_config.json holds, None without it
    u_cli,                \* the options the runs are given
    u_effective_config,   \* effective_config
    u_processed_results,  \* processed_results
    u_pc,                 \* "start" | "loaded" | "scanned"
    u_written             \* what each finished run wrote, None for a dry run

p_vars == <<p_file, p_path, p_stop, p_pc, p_out>>

s_vars == <<s_config, s_root, s_links, s_dirlinks, s_status_indicator, s_size,
            s_statfail, s_stack, s_included, s_pc, s_result, s_listed,
            s_relisted, s_evaluated, s_pruned, s_resolved, s_statted>>

r_vars == <<r_files_to_scan, r_stop, r_futures, r_pending,
            r_processed_results, r_pc, r_out, r_exit_code, r_late>>

c_vars == <<c_calls, c_stop, c_pc, c_frame, c_out>>

u_vars == <<u_disk, u_user_config, u_cli, u_effective_config,
            u_processed_results, u_pc, u_written>>

vars == <<p_file, p_path, p_stop, p_pc, p_out, s_config, s_root, s_links,
          s_dirlinks, s_status_indicator, s_size, s_statfail, s_stack,
          s_included, s_pc, s_result, s_listed, s_relisted, s_evaluated,
          s_pruned, s_resolved, s_statted, r_files_to_scan,
          r_stop, r_futures, r_pending, r_processed_results, r_pc, r_out,
          r_exit_code, r_late, c_calls, c_stop, c_pc, c_frame, c_out,
          u_disk, u_user_config, u_cli, u_effective_config,
          u_processed_results, u_pc, u_written>>

(***************************************************************************)
(* Bounds of the model.                                                    *)
(***************************************************************************)
\* Longest file content enumerated byte by byte.
MaxLen == 3
\* Depth of the project tree: directories nested below the project root.
MaxDepth == 2
\* The files handed to the worker pool are at most MaxFiles.
MaxFiles == 3
\* The number of process_file calls running at once.
MaxCalls == 2
\* The number of times the run command is given.
MaxRuns == 2

(***************************************************************************)
(* Python's Optional.                                                      *)
(***************************************************************************)
None == [some |-> FALSE]
Some(v) == [some |-> TRUE, v |-> v]

(***************************************************************************)
(* file_processor.py: constants                                            *)
(***************************************************************************)
\* Mutant of TEXT_ENCODINGS_TO_TRY: the fallback encoding tried first.
EncodingsFallbackFirst == <<"cp1252", "utf-8">>

TEXT_ENCODINGS_TO_TRY == <<"utf-8", "cp1252">>
BINARY_DETECTION_CHUNK_SIZE == 4096
\* The float 10.0; see _is_likely_binary_by_nulls for the comparison.
NULL_BYTE_THRESHOLD_PERCENT == 10

(***************************************************************************)
(* bytes.decode("utf-8", errors="strict"): the well-formed byte sequences  *)
(* of the Unicode standard (no overlong forms, no surrogates, at most      *)
(* U+10FFFF). The error carries the index of the first ill-formed byte     *)
(* sequence (0-based, as UnicodeDecodeError.start).                        *)
(***************************************************************************)
DecodeOk(text) == [ok |-> TRUE, text |-> text, codec |-> "", start |-> 0]
DecodeErr(codec, start) == [ok |-> FALSE, text |-> <<>>, codec |-> codec, start |-> start]

RECURSIVE Utf8From(_, _)
Utf8From(b, i) ==
    IF i > Len(b) THEN DecodeOk(<<>>)
    ELSE
      LET c == b[i]
          need == IF c < 128 THEN 1
                  ELSE IF c \in 194..223 THEN 2
                  ELSE IF c \in 224..239 THEN 3
                  ELSE IF c \in 240..244 THEN 4
                  ELSE 0
          Cont(k, lo, hi) == i + k <= Len(b) /\ b[i + k] \in lo..hi
          lo2 == IF c = 224 THEN 160 ELSE IF c = 240 THEN 144 ELSE 128
          hi2 == IF c = 237 THEN 159 ELSE IF c = 244 THEN 143 ELSE 191
          valid == CASE need = 1 -> TRUE
                     [] need = 2 -> Cont(1, 128, 191)
                     [] need = 3 -> Cont(1, lo2, hi2) /\ Cont(2, 128, 191)
                     [] need = 4 -> Cont(1, lo2, hi2) /\ Cont(2, 128, 191)
                                    /\ Cont(3, 128, 191)
                     [] OTHER -> FALSE
          cp == CASE need = 1 -> c
                  [] need = 2 -> (c - 192) * 64 + (b[i + 1] - 128)
                  [] need = 3 -> (c - 224) * 4096 + (b[i + 1] - 128) * 64
                                 + (b[i + 2] - 128)
                  [] OTHER -> (c - 240) * 262144 + (b[i + 1] - 128) * 4096
                              + (b[i + 2] - 128) * 64 + (b[i + 3] - 128)
      IN IF ~valid THEN DecodeErr("utf-8", i - 1)
         ELSE LET rest == Utf8From(b, i + need)
              IN IF rest.ok THEN DecodeOk(<<cp>> \o rest.text) ELSE rest

\* Pure ASCII decodes to itself (each byte below 0x80 is its own code point);
\* any other content is decoded sequence by sequence.
Utf8Decode(b) ==
    IF \A j \in 1..Len(b) : b[j] < 128 THEN DecodeOk(b) ELSE Utf8From(b, 1)

(***************************************************************************)
(* bytes.decode("cp1252", errors="strict"): a charmap codec. 0x81, 0x8D,   *)
(* 0x8F, 0x90 and 0x9D are undefined; 0x80..0x9F map as in the table; all   *)
(* other bytes map to the code point of the same number.                   *)
(***************************************************************************)
Cp1252High ==
    << 8364, -1, 8218, 402, 8222, 8230, 8224, 8225, 710, 8240, 352, 8249,
       338, -1, 381, -1, -1, 8216, 8217, 8220, 8221, 8226, 8211, 8212, 732,
       8482, 353, 8250, 339, -1, 382, 376 >>

Cp1252Char(c) == IF c \in 128..159 THEN Cp1252High[c - 127] ELSE c

Cp1252Decode(b) ==
    LET bad == {j \in 1..Len(b) : Cp1252Char(b[j]) = -1}
    IN IF bad = {}
       THEN DecodeOk([j \in 1..Len(b) |-> Cp1252Char(b[j])])
       ELSE DecodeErr("charmap", (CHOOSE j \in bad : \A k \in bad : j <= k) - 1)

bytes_decode(b, enc) == IF enc = "utf-8" THEN Utf8Decode(b) ELSE Cp1252Decode(b)

(***************************************************************************)
(* str.splitlines() and "\n".join(...)                                     *)
(***************************************************************************)
LF == 10
CR == 13
\* The line boundaries of str.splitlines: \n \v \f \r \x1c \x1d \x1e \x85
\*     (and \r\n, taken as one boundary).
LineBoundaries == {10, 11, 12, 13, 28, 29, 30, 133, 8232, 8233}

RECURSIVE splitlines(_)
splitlines(s) ==
    LET at == {j \in 1..Len(s) : s[j] \in LineBoundaries}
    IN IF s = <<>> THEN <<>>
       ELSE IF at = {} THEN <<s>>
       ELSE LET i == CHOOSE j \in at : \A k \in at : j <= k
                w == IF s[i] = CR /\ i < Len(s) /\ s[i + 1] = LF THEN 2 ELSE 1
            IN <<SubSeq(s, 1, i - 1)>> \o splitlines(SubSeq(s, i + w, Len(s)))

RECURSIVE join(_, _)
join(sep, lines) ==
    IF lines = <<>> THEN <<>>
    ELSE IF Len(lines) = 1 THEN lines[1]
    ELSE lines[1] \o sep \o join(sep, Tail(lines))

(***************************************************************************)
(* file_processor.py: helpers                                              *)
(***************************************************************************)
count_nulls(chunk) == Cardinality({j \in 1..Len(chunk) : chunk[j] = 0})

\* (null_bytes / len(chunk)) * 100 > 10.0 in IEEE doubles. For every chunk of
\* 1..4096 bytes the comparison agrees with the exact one on integers,
\* null_bytes * 100 > 10 * len(chunk): k / (10k) rounds to the double nearest
\* 0.1, whose product with 100 rounds to 10.0, and any ratio above 1/10 is
\* above it by at least 1/40960.
\* Mutant of is_likely_binary_by_nulls: the threshold taken inclusively.
LikelyBinaryByNullsInclusive(chunk) ==
    /\ chunk # <<>>
    /\ count_nulls(chunk) * 100 >= NULL_BYTE_THRESHOLD_PERCENT * Len(chunk)

\* _is_likely_binary_by_nulls, with the comparison on integers (see above).
is_likely_binary_by_nulls(chunk) ==
    /\ chunk # <<>>
    /\ Len(chunk) > 0
    /\ count_nulls(chunk) * 100 > NULL_BYTE_THRESHOLD_PERCENT * Len(chunk)

\* file_bytes[:BINARY_DETECTION_CHUNK_SIZE]
binary_chunk(file_bytes) ==
    SubSeq(file_bytes, 1,
           IF Len(file_bytes) < BINARY_DETECTION_CHUNK_SIZE
           THEN Len(file_bytes) ELSE BINARY_DETECTION_CHUNK_SIZE)

\* The normalisation of _try_decode_bytes: "\n".join(decoded.splitlines())
normalize_line_endings(decoded) == join(<<LF>>, splitlines(decoded))

\* The loop of _try_decode_bytes from the k-th encoding on; last_decode_error
\* is the error of the encoding tried before it.
RECURSIVE TryDecodeFrom(_, _, _)
TryDecodeFrom(file_bytes, k, last_decode_error) ==
    IF k > Len(TEXT_ENCODINGS_TO_TRY)
    THEN [content |-> None, encoding |-> None, error |-> last_decode_error]
    ELSE LET enc == TEXT_ENCODINGS_TO_TRY[k]
             d == bytes_decode(file_bytes, enc)
         IN IF d.ok
            THEN [content |-> Some(normalize_line_endings(d.text)),
                  encoding |-> Some(enc), error |-> None]
            ELSE TryDecodeFrom(file_bytes, k + 1,
                               Some([type |-> "UnicodeDecodeError",
                                     codec |-> d.codec, start |-> d.start]))

try_decode_bytes(file_bytes) == TryDecodeFrom(file_bytes, 1, None)

(***************************************************************************)
(* The outcome of a call: a ProcessedFileData returned, or an exception.   *)
(***************************************************************************)
ProcessedFileData(path, relative_path, status, content, error_message, encoding_used) ==
    [kind |-> "returned", path |-> path, relative_path |-> relative_path,
     status |-> status, content |-> content, error_message |-> error_message,
     encoding_used |-> encoding_used]

Raise(exc) == [kind |-> "raised", exc |-> exc]

\* f"Failed to decode as text using [{encodings}]." + f" Last error (...): ..."
DecodeFailureMessage(decode_error) ==
    [text |-> "Failed to decode as text using",
     encodings |-> TEXT_ENCODINGS_TO_TRY,
     last_error |-> decode_error]

\* Mutant of handle_decode_failure: the failure always downgraded to a result.
HandleDecodeFailureNeverRaising(file_path, relative_p, decode_error, stop_on_error) ==
    ProcessedFileData(file_path, relative_p, "read_error", None,
                      Some(DecodeFailureMessage(decode_error)), None)

handle_decode_failure(file_path, relative_p, decode_error, stop_on_error) ==
    IF stop_on_error /\ decode_error.some
    THEN Raise(decode_error.v)
    ELSE ProcessedFileData(file_path, relative_p, "read_error", None,
                           Some(DecodeFailureMessage(decode_error)), None)

\* Mutant of RelativeP: the whole path kept when the file is outside the root.
RelativePFullPath(file_path) == file_path.parts

\* file_path.relative_to(cli_project_path), or Path(file_path.name)
RelativeP(file_path) ==
    IF file_path.inside THEN file_path.parts
    ELSE <<file_path.parts[Len(file_path.parts)]>>

\* f"OS error accessing file: {type(e).__name__}: {e}"
OsErrorMessage(e) ==
    [text |-> "OS error accessing file", kind |-> e.type, detail |-> e.detail]

\* Mutant of handle_os_error: the OS error always downgraded to a result.
HandleOsErrorNeverRaising(file_path, relative_p, e, stop_on_error) ==
    ProcessedFileData(file_path, relative_p, "skipped_access_error", None,
                      Some(OsErrorMessage(e)), None)

\* Mutant of handle_os_error: the OS error always passed on to the caller.
HandleOsErrorAlwaysRaising(file_path, relative_p, e, stop_on_error) == Raise(e)

\* The except OSError block of process_file.
handle_os_error(file_path, relative_p, e, stop_on_error) ==
    IF stop_on_error
    THEN Raise(e)
    ELSE ProcessedFileData(file_path, relative_p, "skipped_access_error", None,
                           Some(OsErrorMessage(e)), None)

\* Mutant of process_file: the text decode attempted before the binary check.
ProcessFileDecodeFirst(file, file_path, stop_on_error) ==
    LET relative_p == RelativeP(file_path)
        t == try_decode_bytes(file.bytes)
    IN IF file.err.some
       THEN handle_os_error(file_path, relative_p, file.err.v, stop_on_error)
       ELSE IF file.bytes = <<>>
       THEN ProcessedFileData(file_path, relative_p, "text_content", Some(<<>>),
                              None, Some(TEXT_ENCODINGS_TO_TRY[1]))
       ELSE IF t.content.some /\ t.encoding.some
       THEN ProcessedFileData(file_path, relative_p, "text_content",
                              t.content, None, t.encoding)
       ELSE IF is_likely_binary_by_nulls(binary_chunk(file.bytes))
       THEN ProcessedFileData(file_path, relative_p, "binary_file", None, None, None)
       ELSE handle_decode_failure(file_path, relative_p, t.error, stop_on_error)

\* Mutant of process_file: the result for an empty file leaves content unset.
ProcessFileEmptyWithoutContent(file, file_path, stop_on_error) ==
    LET relative_p == RelativeP(file_path)
    IN IF file.err.some
       THEN handle_os_error(file_path, relative_p, file.err.v, stop_on_error)
       ELSE IF file.bytes = <<>>
       THEN ProcessedFileData(file_path, relative_p, "text_content", None,
                              None, Some(TEXT_ENCODINGS_TO_TRY[1]))
       ELSE IF is_likely_binary_by_nulls(binary_chunk(file.bytes))
       THEN ProcessedFileData(file_path, relative_p, "binary_file", None, None, None)
       ELSE LET t == try_decode_bytes(file.bytes)
            IN IF t.content.some /\ t.encoding.some
               THEN ProcessedFileData(file_path, relative_p, "text_content",
                                      t.content, None, t.encoding)
               ELSE handle_decode_failure(file_path, relative_p, t.error,
                                          stop_on_error)

process_file(file, file_path, stop_on_error) ==
    LET relative_p == RelativeP(file_path)
    IN \* 1. Read file bytes, handling OS errors
       IF file.err.some
       THEN handle_os_error(file_path, relative_p, file.err.v, stop_on_error)
       \* 2. Handle empty file
       ELSE IF file.bytes = <<>>
       THEN ProcessedFileData(file_path, relative_p, "text_content", Some(<<>>),
                              None, Some(TEXT_ENCODINGS_TO_TRY[1]))
       \* 3. Strong binary check
       ELSE IF is_likely_binary_by_nulls(binary_chunk(file.bytes))
       THEN ProcessedFileData(file_path, relative_p, "binary_file", None, None, None)
       \* 4. Attempt to decode as text
       ELSE LET t == try_decode_bytes(file.bytes)
            IN IF t.content.some /\ t.encoding.some
               THEN ProcessedFileData(file_path, relative_p, "text_content",
                                      t.content, None, t.encoding)
               \* 5. Handle decode failure
               ELSE handle_decode_failure(file_path, relative_p, t.error,
                                          stop_on_error)

(***************************************************************************)
(* Strings: sequences of one-character strings.                            *)
(***************************************************************************)
\* The printable ASCII characters, from code 32 on (the double quote, the
\* backslash and the backtick, which no path of the model holds, by name).
Ascii ==
    <<" ", "!", "QUOTE", "#", "$", "%", "&", "'", "(", ")", "*", "+", ",",
       "-", ".", "/", "0", "1", "2", "3", "4", "5", "6", "7", "8", "9",
       ":", ";", "<", "=", ">", "?", "@", "A", "B", "C", "D", "E", "F",
       "G", "H", "I", "J", "K", "L", "M", "N", "O", "P", "Q", "R", "S",
       "T", "U", "V", "W", "X", "Y", "Z", "[", "BACKSLASH", "]", "^", "_", "BACKTICK",
       "a", "b", "c", "d", "e", "f", "g", "h", "i", "j", "k", "l", "m",
       "n", "o", "p", "q", "r", "s", "t", "u", "v", "w", "x", "y", "z",
       "{", "|", "}", "~" >>

CharCode ==
    [c \in {Ascii[i] : i \in 1..Len(Ascii)} |->
        31 + (CHOOSE i \in 1..Len(Ascii) : Ascii[i] = c)]
Ord(c) == CharCode[c]
Chr(n) == Ascii[n - 31]

\* str.lower()
LowerOf ==
    [c \in DOMAIN CharCode |->
        IF CharCode[c] \in 65..90 THEN Chr(CharCode[c] + 32) ELSE c]
LowerChar(c) == LowerOf[c]
lower(s) == [i \in 1..Len(s) |-> LowerChar(s[i])]

\* str.startswith, str.endswith, str.rstrip(chars)
startswith(s, prefix) ==
    Len(s) >= Len(prefix) /\ SubSeq(s, 1, Len(prefix)) = prefix
endswith(s, suffix) ==
    Len(s) >= Len(suffix) /\ SubSeq(s, Len(s) - Len(suffix) + 1, Len(s)) = suffix
RECURSIVE rstrip(_, _)
rstrip(s, chars) ==
    IF s # <<>> /\ s[Len(s)] \in chars THEN rstrip(SubSeq(s, 1, Len(s) - 1), chars)
    ELSE s

\* Comparison of str: by code point, a proper prefix first.
RECURSIVE StrLess(_, _)
StrLess(a, b) ==
    IF b = <<>> THEN FALSE
    ELSE IF a = <<>> THEN TRUE
    ELSE IF a[1] # b[1] THEN Ord(a[1]) < Ord(b[1])
    ELSE StrLess(Tail(a), Tail(b))

(***************************************************************************)
(* fnmatch.fnmatch(name, pat) on POSIX (os.path.normcase is the identity): *)
(* "*" matches any run of characters, "/" included, "?" any one character, *)
(* every other character itself. The patterns of the model hold no "[".    *)
(***************************************************************************)
RECURSIVE fnmatch(_, _)
fnmatch(name, pat) ==
    IF pat = <<>> THEN name = <<>>
    ELSE IF pat[1] = "*"
         THEN fnmatch(name, Tail(pat)) \/ (name # <<>> /\ fnmatch(Tail(name), pat))
    ELSE /\ name # <<>>
         /\ (pat[1] = "?" \/ pat[1] = name[1])
         /\ fnmatch(Tail(name), Tail(pat))

(***************************************************************************)
(* Paths. A path under the project root (cli_project_path) is its          *)
(* slash-separated path relative to that root, <<>> for the root itself;   *)
(* a path elsewhere on the disk starts with "/".                           *)
(***************************************************************************)
SEP == <<"/">>
PathJoin(dir, name) == IF dir = <<>> THEN name ELSE dir \o SEP \o name

\* path.relative_to(cli_project_path) succeeds.
InProject(path) == path = <<>> \/ path[1] # "/"

\* path.relative_to(dir) succeeds, dir being a directory of the project.
IsRelativeTo(path, dir) ==
    /\ InProject(path)
    /\ (dir = <<>> \/ path = dir \/ startswith(path, dir \o SEP))

\* path lies below dir.
IsBelow(path, dir) == IsRelativeTo(path, dir) /\ path # dir

\* PurePath.parts
RECURSIVE Parts(_)
Parts(path) ==
    LET at == {j \in 1..Len(path) : path[j] = "/"}
    IN IF path = <<>> THEN <<>>
       ELSE IF at = {} THEN <<path>>
       ELSE LET i == CHOOSE j \in at : \A k \in at : j <= k
            IN <<SubSeq(path, 1, i - 1)>> \o Parts(SubSeq(path, i + 1, Len(path)))

\* PurePath.__lt__: the parts compared as lists of str.
RECURSIVE PartsLess(_, _)
PartsLess(a, b) ==
    IF b = <<>> THEN FALSE
    ELSE IF a = <<>> THEN TRUE
    ELSE IF a[1] # b[1] THEN StrLess(a[1], b[1])
    ELSE PartsLess(Tail(a), Tail(b))

\* Mutant of PathLess: the paths compared as strings.
PathLessByString(a, b) == StrLess(a, b)

PathLess(a, b) == PartsLess(Parts(a), Parts(b))

(***************************************************************************)
(* file_scanner.py: pattern matching                                       *)
(***************************************************************************)
\* Mutant of is_path_excluded_by_pattern: the glob match alone, without the
\* directory prefixes.
IsPathExcludedGlobOnly(relative_path_str, patterns, case_sensitive) ==
    \E i \in 1..Len(patterns) :
       fnmatch(IF case_sensitive THEN relative_path_str
               ELSE lower(relative_path_str),
               IF case_sensitive THEN patterns[i] ELSE lower(patterns[i]))

is_path_excluded_by_pattern(relative_path_str, patterns, case_sensitive) ==
    LET path_to_match == IF case_sensitive THEN relative_path_str
                         ELSE lower(relative_path_str)
    IN \E i \in 1..Len(patterns) :
          LET pattern_to_match == IF case_sensitive THEN patterns[i]
                                  ELSE lower(patterns[i])
          IN \/ fnmatch(path_to_match, pattern_to_match)
             \* Handle directory patterns like "build/" or "dist/*"
             \/ IF endswith(pattern_to_match, <<"/">>)
                   \/ endswith(pattern_to_match, <<"/", "*">>)
                THEN startswith(path_to_match,
                                rstrip(pattern_to_match, {"/", "*"}) \o <<"/">>)
                \* Handle simple directory names like "node_modules"
                ELSE startswith(path_to_match, pattern_to_match \o <<"/">>)

\* Mutant of is_path_included_by_pattern: an empty list includes nothing.
IsPathIncludedEmptyMatchesNothing(relative_path_str, patterns, case_sensitive) ==
    LET path_to_match == IF case_sensitive THEN relative_path_str
                         ELSE lower(relative_path_str)
    IN \E i \in 1..Len(patterns) :
          fnmatch(path_to_match,
                  IF case_sensitive THEN patterns[i] ELSE lower(patterns[i]))

is_path_included_by_pattern(relative_path_str, patterns, case_sensitive) ==
    IF patterns = <<>> THEN TRUE
    ELSE LET path_to_match == IF case_sensitive THEN relative_path_str
                              ELSE lower(relative_path_str)
         IN \E i \in 1..Len(patterns) :
               fnmatch(path_to_match,
                       IF case_sensitive THEN patterns[i] ELSE lower(patterns[i]))

\* Mutant of case_sensitive_matching: paths and patterns compared as written.
CaseSensitiveMatching == TRUE

\* case_sensitive_matching = False
case_sensitive_matching == FALSE

(***************************************************************************)
(* The project tree on disk: under every directory down to depth MaxDepth  *)
(* a subdirectory of each name of DirNames and a regular file of each name *)
(* of FileNames; s_links adds symbolic links to files and s_dirlinks       *)
(* symbolic links to directories.                                          *)
(***************************************************************************)
DirNames == {<<"b">>, <<"s">>}
FileNames == {<<"m", ".", "p">>, <<"s", ".", "x">>}
LinkName == <<"l", ".", "p">>
DirLinkName == <<"d">>
\* A file outside the project root.
OUTSIDE == <<"/", "o">>

RECURSIVE DirsAtDepth(_)
DirsAtDepth(k) ==
    IF k = 0 THEN {<<>>}
    ELSE {PathJoin(d, n) : d \in DirsAtDepth(k - 1), n \in DirNames}

AllDirs == UNION {DirsAtDepth(k) : k \in 0..MaxDepth}
RegularFiles == {PathJoin(d, f) : d \in AllDirs, f \in FileNames}

\* The place of every file of the tree in the order of Path.__lt__.
PathOrder ==
    [x \in RegularFiles |-> Cardinality({y \in RegularFiles : PathLess(y, x)})]

\* sorted(list(a_set_of_paths)): the path at each position is the one with
\* that many smaller paths before it.
sorted(S) ==
    [i \in 1..Cardinality(S) |->
        CHOOSE x \in S :
           Cardinality({y \in S : PathOrder[y] < PathOrder[x]}) = i - 1]

\* os.path.islink(path), for a directory entry of the walk.
islink(path) == \E l \in s_dirlinks : PathJoin(l.dir, l.name) = path

\* Path.resolve(): a symbolic link resolves to its target, a path through a
\* symbolic link to a directory to the path below the link's target; any
\* other path resolves to itself.
resolve(path) ==
    IF \E l \in s_links : PathJoin(l.dir, l.name) = path
    THEN (CHOOSE l \in s_links : PathJoin(l.dir, l.name) = path).target
    ELSE IF \E l \in s_dirlinks : IsRelativeTo(path, PathJoin(l.dir, l.name))
    THEN LET l == CHOOSE x \in s_dirlinks :
                     IsRelativeTo(path, PathJoin(x.dir, x.name))
             link == PathJoin(l.dir, l.name)
         IN IF path = link THEN l.target
            ELSE PathJoin(l.target, SubSeq(path, Len(link) + 2, Len(path)))
    ELSE path

\* os.walk(top, topdown=True): the dirnames and filenames listed for a
\* directory. A symbolic link to a directory is listed among the dirnames,
\* a symbolic link to a file among the filenames.
walk_dirnames(d) ==
    (IF Len(Parts(resolve(d))) < MaxDepth THEN DirNames ELSE {})
      \cup {l.name : l \in {x \in s_dirlinks : x.dir = resolve(d)}}
walk_filenames(d) ==
    FileNames \cup {l.name : l \in {x \in s_links : x.dir = resolve(d)}}

\* Mutant of followlinks: the walk follows symbolic links to directories.
FollowLinks == TRUE

\* os.walk(project_root_path, topdown=True): followlinks keeps its default.
followlinks == FALSE

\* os.walk descends into a directory entry it kept.
walk_into(path) == followlinks \/ ~islink(path)

(***************************************************************************)
(* file_scanner.py: _passes_file_specific_checks. "pass" is True, "skip"   *)
(* is False, "raise" the ValueError of relative_to in the verbose message  *)
(* of an explicitly excluded file (the one of a large file is caught by    *)
(* the except clause around it).                                           *)
(***************************************************************************)
\* Mutant of passes_file_specific_checks: a file of exactly the limit is
\* skipped as too large.
PassesFileSpecificChecksInclusiveLimit(abs_item_path, exclude_files_abs, max_size_bytes, is_verbose, project_root_path) ==
    IF abs_item_path \in exclude_files_abs
    THEN IF is_verbose /\ ~IsRelativeTo(abs_item_path, project_root_path)
         THEN "raise" ELSE "skip"
    ELSE IF abs_item_path \in s_statfail THEN "skip"
    ELSE IF s_size[abs_item_path] >= max_size_bytes THEN "skip"
    ELSE "pass"

\* Mutant of passes_file_specific_checks: a failing stat() escalated under
\* stop_on_error.
PassesFileSpecificChecksEscalating(abs_item_path, exclude_files_abs, max_size_bytes, is_verbose, project_root_path) ==
    IF abs_item_path \in exclude_files_abs
    THEN IF is_verbose /\ ~IsRelativeTo(abs_item_path, project_root_path)
         THEN "raise" ELSE "skip"
    ELSE IF abs_item_path \in s_statfail
    THEN IF s_config.stop_on_error THEN "raise" ELSE "skip"
    ELSE IF s_size[abs_item_path] > max_size_bytes THEN "skip"
    ELSE "pass"

\* Mutant of passes_file_specific_checks: exclude_files is not looked at.
PassesFileSpecificChecksIgnoringExcludeFiles(abs_item_path, exclude_files_abs, max_size_bytes, is_verbose, project_root_path) ==
    IF abs_item_path \in s_statfail THEN "skip"
    ELSE IF s_size[abs_item_path] > max_size_bytes THEN "skip"
    ELSE "pass"

passes_file_specific_checks(abs_item_path, exclude_files_abs, max_size_bytes, is_verbose, project_root_path) ==
    IF abs_item_path \in exclude_files_abs
    THEN IF is_verbose /\ ~IsRelativeTo(abs_item_path, project_root_path)
         THEN "raise" ELSE "skip"
    ELSE IF abs_item_path \in s_statfail THEN "skip"
    ELSE IF s_size[abs_item_path] > max_size_bytes THEN "skip"
    ELSE "pass"

(***************************************************************************)
(* file_scanner.py: scan_project                                           *)
(***************************************************************************)
exclude_dirs_set == s_config.exclude_dirs
exclude_files_abs ==
    {resolve(s_config.exclude_files[i]) : i \in 1..Len(s_config.exclude_files)}
exclude_patterns == s_config.exclude_patterns
include_patterns == s_config.include_patterns
max_size_bytes == s_config.max_file_size_kb * 1024
is_verbose == s_config.verbose

\* Mutant of DirPruned: the patterns put to the directory's path with a
\* trailing separator.
DirPrunedWithTrailingSlash(current_dir_path, d) ==
    \/ d \in exclude_dirs_set
    \/ PathJoin(current_dir_path, d) \in exclude_dirs_set
    \/ is_path_excluded_by_pattern(PathJoin(current_dir_path, d) \o SEP,
                                   exclude_patterns, case_sensitive_matching)

\* The pruning rule for the child directory d of current_dir_path.
DirPruned(current_dir_path, d) ==
    LET dir_rel_path_str == PathJoin(current_dir_path, d)
    IN \/ d \in exclude_dirs_set
       \/ dir_rel_path_str \in exclude_dirs_set
       \/ is_path_excluded_by_pattern(dir_rel_path_str, exclude_patterns,
                                      case_sensitive_matching)

\* Mutant of FileOutcome: a file matching an include pattern is not put to the
\* exclude patterns.
FileOutcomeIncludeWins(current_dir_path, filename) ==
    LET abs_file_path == resolve(PathJoin(current_dir_path, filename))
    IN IF ~InProject(abs_file_path) THEN "raise"
       ELSE IF include_patterns = <<>>
               /\ is_path_excluded_by_pattern(abs_file_path, exclude_patterns,
                                              case_sensitive_matching)
       THEN "skip"
       ELSE IF ~is_path_included_by_pattern(abs_file_path, include_patterns,
                                            case_sensitive_matching)
       THEN "skip"
       ELSE passes_file_specific_checks(abs_file_path, exclude_files_abs,
                                        max_size_bytes, is_verbose, s_root)

\* The body of the loop over filenames for one file: "pass" (added to
\* included_files_set), "skip" (continue) or "raise".
FileOutcome(current_dir_path, filename) ==
    LET abs_file_path == resolve(PathJoin(current_dir_path, filename))
    IN IF ~InProject(abs_file_path) THEN "raise"
       ELSE IF is_path_excluded_by_pattern(abs_file_path, exclude_patterns,
                                           case_sensitive_matching)
       THEN "skip"
       ELSE IF ~is_path_included_by_pattern(abs_file_path, include_patterns,
                                            case_sensitive_matching)
       THEN "skip"
       ELSE passes_file_specific_checks(abs_file_path, exclude_files_abs,
                                        max_size_bytes, is_verbose, s_root)

\* The file's size is asked for: it came through the pattern rules and is
\* not explicitly excluded.
StatCalled(current_dir_path, filename) ==
    LET abs_file_path == resolve(PathJoin(current_dir_path, filename))
    IN /\ InProject(abs_file_path)
       /\ ~is_path_excluded_by_pattern(abs_file_path, exclude_patterns,
                                       case_sensitive_matching)
       /\ is_path_included_by_pattern(abs_file_path, include_patterns,
                                      case_sensitive_matching)
       /\ abs_file_path \notin exclude_files_abs

\* The orders in which the walk can list a set of sibling directories.
Orderings(S) ==
    {q \in [1..Cardinality(S) -> S] : \A x \in S : \E i \in DOMAIN q : q[i] = x}

\* Mutant of WalkDir: the kept subdirectories replace the directories still
\* to be walked.
WalkDirForgettingSiblings ==
    /\ s_pc = "walking"
    /\ s_stack # <<>>
    /\ LET current_dir_path == Head(s_stack)
           dirnames == walk_dirnames(current_dir_path)
           filenames == walk_filenames(current_dir_path)
           dirs_to_keep == {d \in dirnames : ~DirPruned(current_dir_path, d)}
           raising == {f \in filenames : FileOutcome(current_dir_path, f) = "raise"}
           Seen(fs) ==
               /\ s_included' = s_included \cup
                     {resolve(PathJoin(current_dir_path, f)) :
                        f \in {g \in fs : FileOutcome(current_dir_path, g) = "pass"}}
               /\ s_resolved' = s_resolved \cup
                     {PathJoin(current_dir_path, f) : f \in fs}
               /\ s_statted' = s_statted \cup
                     {resolve(PathJoin(current_dir_path, f)) :
                        f \in {g \in fs : StatCalled(current_dir_path, g)}}
       IN \* status_indicator.update(f"Scanning: ./{display_path}")
          /\ s_status_indicator' =
                IF s_status_indicator.some THEN Some(current_dir_path)
                ELSE s_status_indicator
          /\ s_listed' = s_listed \cup {current_dir_path}
          /\ s_relisted' = s_relisted \cup ({current_dir_path} \cap s_listed)
          /\ s_evaluated' = s_evaluated \cup
                {PathJoin(current_dir_path, d) : d \in dirnames}
          /\ s_pruned' = s_pruned \cup
                {PathJoin(current_dir_path, d) : d \in dirnames \ dirs_to_keep}
          /\ \/ \* every file of the directory is filtered; the walk goes on
                \* with the kept subdirectories, in the order they were listed
                /\ raising = {}
                /\ Seen(filenames)
                /\ \E order \in Orderings({x \in {PathJoin(current_dir_path, d) :
                                                     d \in dirs_to_keep} :
                                               walk_into(x)}) :
                      s_stack' = order
                /\ UNCHANGED <<s_pc>>
             \/ \* a file raises, after the files listed before it
                /\ \E f \in raising :
                     \E before \in SUBSET (filenames \ raising) :
                        Seen(before \cup {f})
                /\ s_pc' = "raised"
                /\ UNCHANGED <<s_stack>>
    /\ UNCHANGED <<s_config, s_root, s_links, s_dirlinks, s_size, s_statfail,
                   s_result>>
    /\ UNCHANGED p_vars
    /\ UNCHANGED r_vars
    /\ UNCHANGED c_vars
    /\ UNCHANGED u_vars

\* One iteration of the loop over os.walk: the directory on top of the walk
\* is listed, its subdirectories are pruned, its files are filtered.
WalkDir ==
    /\ s_pc = "walking"
    /\ s_stack # <<>>
    /\ LET current_dir_path == Head(s_stack)
           dirnames == walk_dirnames(current_dir_path)
           filenames == walk_filenames(current_dir_path)
           dirs_to_keep == {d \in dirnames : ~DirPruned(current_dir_path, d)}
           raising == {f \in filenames : FileOutcome(current_dir_path, f) = "raise"}
           Seen(fs) ==
               /\ s_included' = s_included \cup
                     {resolve(PathJoin(current_dir_path, f)) :
                        f \in {g \in fs : FileOutcome(current_dir_path, g) = "pass"}}
               /\ s_resolved' = s_resolved \cup
                     {PathJoin(current_dir_path, f) : f \in fs}
               /\ s_statted' = s_statted \cup
                     {resolve(PathJoin(current_dir_path, f)) :
                        f \in {g \in fs : StatCalled(current_dir_path, g)}}
       IN \* status_indicator.update(f"Scanning: ./{display_path}")
          /\ s_status_indicator' =
                IF s_status_indicator.some THEN Some(current_dir_path)
                ELSE s_status_indicator
          /\ s_listed' = s_listed \cup {current_dir_path}
          /\ s_relisted' = s_relisted \cup ({current_dir_path} \cap s_listed)
          /\ s_evaluated' = s_evaluated \cup
                {PathJoin(current_dir_path, d) : d \in dirnames}
          /\ s_pruned' = s_pruned \cup
                {PathJoin(current_dir_path, d) : d \in dirnames \ dirs_to_keep}
          /\ \/ \* every file of the directory is filtered; the walk goes on
                \* with the kept subdirectories, in the order they were listed
                /\ raising = {}
                /\ Seen(filenames)
                /\ \E order \in Orderings({x \in {PathJoin(current_dir_path, d) :
                                                     d \in dirs_to_keep} :
                                               walk_into(x)}) :
                      s_stack' = order \o Tail(s_stack)
                /\ UNCHANGED <<s_pc>>
             \/ \* a file raises, after the files listed before it
                /\ \E f \in raising :
                     \E before \in SUBSET (filenames \ raising) :
                        Seen(before \cup {f})
                /\ s_pc' = "raised"
                /\ UNCHANGED <<s_stack>>
    /\ UNCHANGED <<s_config, s_root, s_links, s_dirlinks, s_size, s_statfail,
                   s_result>>
    /\ UNCHANGED p_vars
    /\ UNCHANGED r_vars
    /\ UNCHANGED c_vars
    /\ UNCHANGED u_vars

\* return sorted(list(included_files_set))
ScanReturn ==
    /\ s_pc = "walking"
    /\ s_stack = <<>>
    /\ s_pc' = "done"
    /\ s_result' = Some(sorted(s_included))
    /\ UNCHANGED <<s_config, s_root, s_links, s_dirlinks, s_status_indicator,
                   s_size, s_statfail, s_stack, s_included, s_listed,
                   s_relisted, s_evaluated, s_pruned, s_resolved, s_statted>>
    /\ UNCHANGED p_vars
    /\ UNCHANGED r_vars
    /\ UNCHANGED c_vars
    /\ UNCHANGED u_vars

(***************************************************************************)
(* The scans the scanner is run on.                                        *)
(***************************************************************************)
ScanRoots == {<<>>, <<"s">>}

ExcludeDirsChoices ==
    {{}, {<<"b">>}, {<<"s">>}, {<<"s", "/", "b">>}}
ExcludePatternsChoices ==
    {<<>>,
     << <<"b">> >>,
     << <<"s", "/", "b", "/", "*">> >>,
     << <<"*", "m", ".", "p">> >>,
     << <<"B", "/">> >>}
IncludePatternsChoices ==
    {<<>>, << <<"*", ".", "p">> >>, << <<"*", ".", "P">>, <<"s", "*">> >>}
ExcludeFilesChoices == {<<>>, << <<"b", "/", "m", ".", "p">> >>}
\* The settings file is not validated: a negative limit is taken as it is.
MaxFileSizeKbChoices == {-1, 1}

\* The settings: every combination of the path rules under the usual limit
\* and without stop_on_error; the negative limit and stop_on_error, which
\* the path rules do not look at, with the exclusion rules left empty.
Configs ==
    {c \in [exclude_dirs : ExcludeDirsChoices,
            exclude_files : ExcludeFilesChoices,
            exclude_patterns : ExcludePatternsChoices,
            include_patterns : IncludePatternsChoices,
            max_file_size_kb : MaxFileSizeKbChoices,
            stop_on_error : BOOLEAN,
            verbose : BOOLEAN] :
        (c.stop_on_error \/ c.max_file_size_kb < 0) =>
           /\ c.exclude_dirs = {}
           /\ c.exclude_files = <<>>
           /\ c.exclude_patterns = <<>>
           /\ ~c.verbose}

LinkChoices ==
    {{}} \cup {{[dir |-> <<"s">>, name |-> LinkName, target |-> t]} :
                 t \in {<<"b", "/", "m", ".", "p">>, <<"s", "/", "m", ".", "p">>,
                        OUTSIDE}}

\* Every file named s.x has the size n, every other file is empty.
SizesOf(n) ==
    [f \in RegularFiles |-> IF endswith(f, <<"s", ".", "x">>) THEN n ELSE 0]
SizeChoices == {SizesOf(n) : n \in {1024, 1025}}

\* The files whose stat() fails (vanished, or permission denied).
StatFailChoices == {{}, {<<"s", "/", "m", ".", "p">>}}

\* A symbolic link s/d to the project root (a cycle) or to the directory b.
DirLinkChoices ==
    {{}} \cup {{[dir |-> <<"s">>, name |-> DirLinkName, target |-> t]} :
                 t \in {<<>>, <<"b">>}}

\* The status indicator of the command line, showing its first text.
StatusIndicatorChoices == {None, Some(<<>>)}

(***************************************************************************)
(* The files the classifier is run on.                                     *)
(***************************************************************************)
\* NUL, \n, \f, \r, 'A', 0x80 (cp1252 only), 0x9D (neither encoding),
\* 0xC3 0xA9 (UTF-8 for U+00E9; two characters in cp1252).
ByteAlphabet == {0, 10, 12, 13, 65, 128, 157, 195, 169}

SmallContents == UNION {[1..n -> ByteAlphabet] : n \in 0..MaxLen}

\* n bytes, k of them NUL (the first k, or the last k), the others 'A'.
Fill(n, k, front) ==
    [i \in 1..n |-> IF front THEN (IF i <= k THEN 0 ELSE 65)
                    ELSE (IF i > n - k THEN 0 ELSE 65)]

\* Contents around the 10% boundary and around the 4096-byte window.
BoundaryLens == {10, 20, 4000, 4096, 5000}
BoundaryContents ==
    UNION {{Fill(n, k, front) :
              k \in {j \in {n \div 10, (n \div 10) + 1, 410, 904, n} : j <= n},
              front \in BOOLEAN} : n \in BoundaryLens}

Contents == SmallContents \cup BoundaryContents

OsErrors ==
    {[type |-> "FileNotFoundError", detail |-> "No such file or directory"],
     [type |-> "PermissionError", detail |-> "Permission denied"]}

Files ==
    {[err |-> None, bytes |-> b] : b \in Contents}
    \cup {[err |-> Some(e), bytes |-> <<>>] : e \in OsErrors}

\* A path under the project root, and one that is not.
FilePaths == {[inside |-> TRUE, parts |-> <<"s", "m.p">>],
              [inside |-> FALSE, parts |-> <<"o", "m.p">>]}

\* No scan is running.
ScannerIdle ==
    /\ s_config = [exclude_dirs |-> {}, exclude_files |-> <<>>,
                   exclude_patterns |-> <<>>, include_patterns |-> <<>>,
                   max_file_size_kb |-> 1, stop_on_error |-> FALSE,
                   verbose |-> FALSE]
    /\ s_root = <<>>
    /\ s_links = {}
    /\ s_dirlinks = {}
    /\ s_status_indicator = None
    /\ s_size = [f \in RegularFiles |-> 0]
    /\ s_statfail = {}
    /\ s_stack = <<>>
    /\ s_included = {}
    /\ s_pc = "idle"
    /\ s_result = None
    /\ s_listed = {}
    /\ s_relisted = {}
    /\ s_evaluated = {}
    /\ s_pruned = {}
    /\ s_resolved = {}
    /\ s_statted = {}

\* No file is being classified.
ClassifierIdle ==
    /\ p_file = [err |-> None, bytes |-> <<>>]
    /\ p_path = [inside |-> TRUE, parts |-> <<"s", "m.p">>]
    /\ p_stop = FALSE
    /\ p_pc = "idle"
    /\ p_out = None

\* No batch of files is being processed.
OrchestratorIdle ==
    /\ r_files_to_scan = <<>>
    /\ r_stop = FALSE
    /\ r_futures = <<>>
    /\ r_pending = {}
    /\ r_processed_results = <<>>
    /\ r_pc = "idle"
    /\ r_out = None
    /\ r_exit_code = None
    /\ r_late = {}

\* The run command is not given.
RunIdle ==
    /\ u_disk = <<>>
    /\ u_user_config = None
    /\ u_cli = [output_file_name |-> None, include_patterns_override |-> None,
                dry_run |-> FALSE]
    /\ u_effective_config = None
    /\ u_processed_results = <<>>
    /\ u_pc = "idle"
    /\ u_written = <<>>

\* No worker thread runs process_file.
CallsIdle ==
    /\ c_calls = <<>>
    /\ c_stop = FALSE
    /\ c_pc = <<>>
    /\ c_frame = <<>>
    /\ c_out = <<>>

PInit ==
    /\ p_file \in Files
    /\ p_path \in FilePaths
    /\ p_stop \in BOOLEAN
    /\ p_pc = "call"
    /\ p_out = None
    /\ ScannerIdle
    /\ OrchestratorIdle
    /\ CallsIdle
    /\ RunIdle

ProcessFile ==
    /\ p_pc = "call"
    /\ LET r == process_file(p_file, p_path, p_stop)
       IN /\ p_out' = r
          /\ p_pc' = r.kind
    /\ UNCHANGED <<p_file, p_path, p_stop>>
    /\ UNCHANGED s_vars
    /\ UNCHANGED r_vars
    /\ UNCHANGED c_vars
    /\ UNCHANGED u_vars

PNext == ProcessFile

\* The classifier run on one file.
SpecProc == PInit /\ [][PNext]_vars

SInit ==
    /\ s_config \in Configs
    /\ s_root \in ScanRoots
    /\ s_links \in LinkChoices
    /\ s_dirlinks \in DirLinkChoices
    /\ s_status_indicator \in StatusIndicatorChoices
    /\ s_size \in SizeChoices
    /\ s_statfail \in StatFailChoices
    \* the size check looks neither at the links to directories nor at the
    \* status indicator: they go with the sizes within the limit and no
    \* failing stat(), and a link to a directory with no link to a file
    /\ (s_dirlinks # {} \/ s_status_indicator.some) =>
          s_statfail = {} /\ s_size = SizesOf(1024)
    /\ s_dirlinks # {} => s_links = {}
    /\ s_stack = <<s_root>>
    /\ s_included = {}
    /\ s_pc = "walking"
    /\ s_result = None
    /\ s_listed = {}
    /\ s_relisted = {}
    /\ s_evaluated = {}
    /\ s_pruned = {}
    /\ s_resolved = {}
    /\ s_statted = {}
    /\ ClassifierIdle
    /\ OrchestratorIdle
    /\ CallsIdle
    /\ RunIdle

SNext == WalkDir \/ ScanReturn

\* The scanner run on one tree.
SpecScan == SInit /\ [][SNext]_vars

\* The scans that differ in what decides the directories walked: the scan
\* root, the links, and the rules that prune directories.
SInitWalk ==
    /\ SInit
    /\ s_config.exclude_files = <<>>
    /\ s_config.include_patterns = <<>>
    /\ s_config.max_file_size_kb = 1
    /\ ~s_config.stop_on_error
    /\ ~s_config.verbose
    /\ ~s_status_indicator.some
    /\ s_statfail = {}
    /\ s_size = SizesOf(1024)

\* The scanner run to its end: scan_project is a sequential loop, which
\* takes its next step whenever it has one.
SpecScanFair == SInitWalk /\ [][SNext]_vars /\ WF_vars(SNext)

(***************************************************************************)
(* cli_app.py: _process_files_parallel. Every file is submitted to the     *)
(* pool; the workers take the queued calls in the order of submission and  *)
(* finish them in any order; as_completed yields the finished futures.     *)
(* Leaving the with block, by return or by typer.Exit, is                  *)
(* executor.shutdown(wait=True): the queued calls are not cancelled.       *)
(***************************************************************************)
\* The file_path handed to process_file, a file of the project.
FilePathOf(path) == [inside |-> TRUE, parts |-> Parts(path)]

\* future.result(): what the worker's process_file call returned or raised.
future_result(entry, stop_on_error) ==
    process_file(entry.file, FilePathOf(entry.path), stop_on_error)

\* Mutant of sorted_by_relative_path: the results left in completion order.
ResultsInCompletionOrder(results) == results

\* sorted(processed_results, key=lambda p: p.relative_path): a stable sort,
\* the keys compared as paths.
RECURSIVE sorted_by_relative_path(_)
sorted_by_relative_path(results) ==
    IF results = <<>> THEN <<>>
    ELSE LET x == Head(results)
             rest == sorted_by_relative_path(Tail(results))
             before == {j \in 1..Len(rest) :
                          PartsLess(rest[j].relative_path, x.relative_path)}
             k == Cardinality(before)
         IN SubSeq(rest, 1, k) \o <<x>> \o SubSeq(rest, k + 1, Len(rest))

\* A worker thread takes the next queued call: while the loop collects, and
\* while the executor shuts down.
dispatch_allowed == r_pc \in {"collecting", "shutdown"}

\* A worker thread takes the call queued first and starts process_file.
WorkerStart ==
    /\ dispatch_allowed
    /\ \E i \in DOMAIN r_futures :
          /\ r_futures[i] = "queued"
          /\ \A j \in DOMAIN r_futures : r_futures[j] = "queued" => i <= j
          /\ r_futures' = [r_futures EXCEPT ![i] = "running"]
          /\ r_late' = IF r_pc = "shutdown" THEN r_late \cup {i} ELSE r_late
    /\ UNCHANGED <<r_files_to_scan, r_stop, r_pending, r_processed_results,
                   r_pc, r_out, r_exit_code>>
    /\ UNCHANGED p_vars
    /\ UNCHANGED s_vars
    /\ UNCHANGED c_vars
    /\ UNCHANGED u_vars

\* A process_file call ends: its result or its exception is set on the future.
WorkerFinish ==
    /\ \E i \in DOMAIN r_futures :
          /\ r_futures[i] = "running"
          /\ r_futures' = [r_futures EXCEPT ![i] = "finished"]
    /\ UNCHANGED <<r_files_to_scan, r_stop, r_pending, r_processed_results,
                   r_pc, r_out, r_exit_code, r_late>>
    /\ UNCHANGED p_vars
    /\ UNCHANGED s_vars
    /\ UNCHANGED c_vars
    /\ UNCHANGED u_vars

\* One turn of the loop over as_completed: a finished future is yielded; its
\* result is appended, or its exception is reported and, under
\* stop_on_error, typer.Exit(code=1) is raised out of the with block.
CollectResult ==
    /\ r_pc = "collecting"
    /\ \E i \in r_pending :
          LET result == future_result(r_files_to_scan[i], r_stop)
          IN /\ r_futures[i] = "finished"
             /\ r_pending' = r_pending \ {i}
             /\ IF result.kind = "returned"
                THEN /\ r_processed_results' = Append(r_processed_results, result)
                     /\ UNCHANGED r_pc
                ELSE /\ UNCHANGED r_processed_results
                     /\ r_pc' = IF r_stop THEN "shutdown" ELSE r_pc
    /\ UNCHANGED <<r_files_to_scan, r_stop, r_futures, r_out, r_exit_code,
                   r_late>>
    /\ UNCHANGED p_vars
    /\ UNCHANGED s_vars
    /\ UNCHANGED c_vars
    /\ UNCHANGED u_vars

\* ThreadPoolExecutor.__exit__ under typer.Exit: shutdown(wait=True) returns
\* when every submitted call has run, and the exception leaves the function.
ExitAfterShutdown ==
    /\ r_pc = "shutdown"
    /\ \A i \in DOMAIN r_futures : r_futures[i] = "finished"
    /\ r_pc' = "exit"
    /\ r_exit_code' = Some(1)
    /\ UNCHANGED <<r_files_to_scan, r_stop, r_futures, r_pending,
                   r_processed_results, r_out, r_late>>
    /\ UNCHANGED p_vars
    /\ UNCHANGED s_vars
    /\ UNCHANGED c_vars
    /\ UNCHANGED u_vars

\* return sorted(processed_results, key=lambda p: p.relative_path)
ReturnResults ==
    /\ r_pc = "collecting"
    /\ r_pending = {}
    /\ r_pc' = "returned"
    /\ r_out' = Some(sorted_by_relative_path(r_processed_results))
    /\ UNCHANGED <<r_files_to_scan, r_stop, r_futures, r_pending,
                   r_processed_results, r_exit_code, r_late>>
    /\ UNCHANGED p_vars
    /\ UNCHANGED s_vars
    /\ UNCHANGED c_vars
    /\ UNCHANGED u_vars

\* The files of a batch: text, binary, undecodable, unreadable.
BatchFiles ==
    {[err |-> None, bytes |-> <<65>>],
     [err |-> None, bytes |-> <<0>>],
     [err |-> None, bytes |-> <<157>>],
     [err |-> Some([type |-> "PermissionError", detail |-> "Permission denied"]),
      bytes |-> <<>>]}

\* The paths of a batch: files of the tree, among them a file and a
\* directory whose names start alike.
BatchPaths ==
    {<<"m", ".", "p">>, <<"s", ".", "x">>, <<"s", "/", "m", ".", "p">>,
     <<"s", "/", "s", ".", "x">>}

\* The lists scan_project can hand over: distinct paths, sorted, not empty.
BatchLists ==
    {sorted(S) : S \in {T \in SUBSET BatchPaths :
                          T # {} /\ Cardinality(T) <= MaxFiles}}

RInit ==
    /\ \E paths \in BatchLists :
          r_files_to_scan \in
             {[i \in 1..Len(paths) |-> [path |-> paths[i], file |-> fs[i]]] :
                fs \in [1..Len(paths) -> BatchFiles]}
    /\ r_stop \in BOOLEAN
    /\ r_futures = [i \in 1..Len(r_files_to_scan) |-> "queued"]
    /\ r_pending = 1..Len(r_files_to_scan)
    /\ r_processed_results = <<>>
    /\ r_pc = "collecting"
    /\ r_out = None
    /\ r_exit_code = None
    /\ r_late = {}
    /\ ClassifierIdle
    /\ ScannerIdle
    /\ CallsIdle
    /\ RunIdle

RNext ==
    \/ WorkerStart
    \/ WorkerFinish
    \/ CollectResult
    \/ ExitAfterShutdown
    \/ ReturnResults

\* The worker pool run on one list of files.
SpecPar == RInit /\ [][RNext]_vars

(***************************************************************************)
(* file_processor.py: process_file run by several worker threads at once,  *)
(* each call a sequence of steps: the read, the checks on the bytes read,  *)
(* one turn of the loop over the encodings. The local variables of a call  *)
(* live in its own stack frame.                                            *)
(***************************************************************************)
\* Mutant of frame: one frame for every call, as module-level variables.
SharedFrame(i) == 1

\* The stack frame holding the local variables of the call i.
frame(i) == i

\* The local variables before the call has assigned them.
NoLocals == [file_bytes |-> <<>>, k |-> 1, last_decode_error |-> None]

\* The call i ends with the outcome out.
CallEnds(i, out) ==
    /\ c_pc' = [c_pc EXCEPT ![i] = "done"]
    /\ c_out' = [c_out EXCEPT ![i] = Some(out)]

\* file_bytes = file_path.read_bytes(), or the except OSError block.
CallRead(i) ==
    /\ c_pc[i] = "read"
    /\ LET file == c_calls[i].file
           file_path == c_calls[i].file_path
       IN IF file.err.some
          THEN /\ CallEnds(i, handle_os_error(file_path, RelativeP(file_path),
                                              file.err.v, c_stop))
               /\ UNCHANGED c_frame
          ELSE /\ c_frame' = [c_frame EXCEPT ![frame(i)].file_bytes = file.bytes]
               /\ c_pc' = [c_pc EXCEPT ![i] = "classify"]
               /\ UNCHANGED c_out
    /\ UNCHANGED <<c_calls, c_stop>>

\* The empty file and the null-byte check on the bytes read.
CallClassify(i) ==
    /\ c_pc[i] = "classify"
    /\ LET file_bytes == c_frame[frame(i)].file_bytes
           file_path == c_calls[i].file_path
           relative_p == RelativeP(file_path)
       IN IF file_bytes = <<>>
          THEN /\ CallEnds(i, ProcessedFileData(file_path, relative_p,
                                  "text_content", Some(<<>>), None,
                                  Some(TEXT_ENCODINGS_TO_TRY[1])))
               /\ UNCHANGED c_frame
          ELSE IF is_likely_binary_by_nulls(binary_chunk(file_bytes))
          THEN /\ CallEnds(i, ProcessedFileData(file_path, relative_p,
                                  "binary_file", None, None, None))
               /\ UNCHANGED c_frame
          ELSE \* _try_decode_bytes is entered: last_decode_error = None
               /\ c_frame' = [c_frame EXCEPT ![frame(i)].k = 1,
                                             ![frame(i)].last_decode_error = None]
               /\ c_pc' = [c_pc EXCEPT ![i] = "decode"]
               /\ UNCHANGED c_out
    /\ UNCHANGED <<c_calls, c_stop>>

\* One turn of the loop over TEXT_ENCODINGS_TO_TRY, or, the encodings used
\* up, the return of _try_decode_bytes into _handle_decode_failure.
CallDecode(i) ==
    /\ c_pc[i] = "decode"
    /\ LET locals == c_frame[frame(i)]
           file_path == c_calls[i].file_path
           relative_p == RelativeP(file_path)
       IN IF locals.k > Len(TEXT_ENCODINGS_TO_TRY)
          THEN /\ CallEnds(i, handle_decode_failure(file_path, relative_p,
                                  locals.last_decode_error, c_stop))
               /\ UNCHANGED c_frame
          ELSE LET enc == TEXT_ENCODINGS_TO_TRY[locals.k]
                   d == bytes_decode(locals.file_bytes, enc)
               IN IF d.ok
                  THEN /\ CallEnds(i, ProcessedFileData(file_path, relative_p,
                                          "text_content",
                                          Some(normalize_line_endings(d.text)),
                                          None, Some(enc)))
                       /\ UNCHANGED c_frame
                  ELSE /\ c_frame' =
                            [c_frame EXCEPT
                               ![frame(i)].k = locals.k + 1,
                               ![frame(i)].last_decode_error =
                                  Some([type |-> "UnicodeDecodeError",
                                        codec |-> d.codec, start |-> d.start])]
                       /\ UNCHANGED <<c_pc, c_out>>
    /\ UNCHANGED <<c_calls, c_stop>>

\* A worker thread takes the next step of its call.
WorkerReads ==
    /\ \E i \in DOMAIN c_calls : CallRead(i)
    /\ UNCHANGED p_vars
    /\ UNCHANGED s_vars
    /\ UNCHANGED r_vars
    /\ UNCHANGED u_vars

WorkerClassifies ==
    /\ \E i \in DOMAIN c_calls : CallClassify(i)
    /\ UNCHANGED p_vars
    /\ UNCHANGED s_vars
    /\ UNCHANGED r_vars
    /\ UNCHANGED u_vars

WorkerDecodes ==
    /\ \E i \in DOMAIN c_calls : CallDecode(i)
    /\ UNCHANGED p_vars
    /\ UNCHANGED s_vars
    /\ UNCHANGED r_vars
    /\ UNCHANGED u_vars

\* The files the concurrent calls are run on: text, NULs, bytes that only
\* cp1252 decodes, bytes that nothing decodes, empty, unreadable.
CallFiles ==
    {[err |-> None, bytes |-> <<65, 13, 10>>],
     [err |-> None, bytes |-> <<0>>],
     [err |-> None, bytes |-> <<128>>],
     [err |-> None, bytes |-> <<157>>],
     [err |-> None, bytes |-> <<>>],
     [err |-> Some([type |-> "PermissionError", detail |-> "Permission denied"]),
      bytes |-> <<>>]}

\* The distinct paths of the calls, in the order of submission.
CallPaths ==
    << <<"m", ".", "p">>, <<"s", ".", "x">>, <<"s", "/", "m", ".", "p">>,
       <<"s", "/", "s", ".", "x">> >>

CInit ==
    /\ c_calls \in {[i \in 1..MaxCalls |->
                       [file_path |-> FilePathOf(CallPaths[i]), file |-> fs[i]]] :
                     fs \in [1..MaxCalls -> CallFiles]}
    /\ c_stop \in BOOLEAN
    /\ c_pc = [i \in 1..MaxCalls |-> "read"]
    /\ c_frame = [i \in 1..MaxCalls |-> NoLocals]
    /\ c_out = [i \in 1..MaxCalls |-> None]
    /\ ClassifierIdle
    /\ ScannerIdle
    /\ OrchestratorIdle
    /\ RunIdle

CNext == WorkerReads \/ WorkerClassifies \/ WorkerDecodes

\* Calls of process_file interleaved step by step.
SpecConc == CInit /\ [][CNext]_vars

(***************************************************************************)
(* cli_app.py: run, on a project whose files all lie in the project root   *)
(* and are text files under the size limit. A file's content is its text   *)
(* or, for a document written by a run, the sections of the document.      *)
(***************************************************************************)
Text(bytes) == [text |-> bytes, sections |-> <<>>]

\* constants.py
DEFAULT_CONFIG_FILENAME ==
    <<".", "c", "o", "d", "e", "c", "a", "t", "_", "c", "o", "n", "f", "i",
      "g", ".", "j", "s", "o", "n">>
DEFAULT_OUTPUT_FILENAME ==
    <<"c", "o", "d", "e", "c", "a", "t", "_", "o", "u", "t", "p", "u", "t",
      ".", "m", "d">>

\* config.py: DEFAULT_CONFIG, its lists cut down to the entries that the
\* names of the modelled projects can match.
DEFAULT_CONFIG ==
    [output_file |-> DEFAULT_OUTPUT_FILENAME,
     include_patterns |-> << <<"*", ".", "p", "y">>, <<"*", ".", "j", "s", "o", "n">>,
                             <<"*", ".", "m", "d">> >>,
     exclude_patterns |-> << <<"*", ".", "p", "y", "c">> >>,
     exclude_files |-> <<DEFAULT_CONFIG_FILENAME, DEFAULT_OUTPUT_FILENAME>>]

\* config.py: _apply_cli_overrides, for the options the runs are given.
apply_cli_overrides(config, output_file_name_override, include_patterns_override) ==
    [k \in DOMAIN config |->
        IF k = "output_file" /\ output_file_name_override.some
        THEN output_file_name_override.v
        ELSE IF k = "include_patterns" /\ include_patterns_override.some
                /\ include_patterns_override.v # <<>>
        THEN include_patterns_override.v
        ELSE config[k]]

\* config.py: load_config. user_config is what the settings file holds, None
\* without such a file; a key of the file replaces the default's value whole.
load_config(user_config, output_file_name_override, include_patterns_override) ==
    LET effective_config ==
           IF user_config.some
           THEN [k \in DOMAIN DEFAULT_CONFIG |->
                    IF k \in DOMAIN user_config.v THEN user_config.v[k]
                    ELSE DEFAULT_CONFIG[k]]
           ELSE DEFAULT_CONFIG
    IN apply_cli_overrides(effective_config, output_file_name_override,
                           include_patterns_override)

\* file_scanner.py: scan_project on the files of the project root.
files_to_scan(disk, config) ==
    LET exclude_files_of_run ==
           {config.exclude_files[i] : i \in 1..Len(config.exclude_files)}
        included_files_set ==
           {f \in DOMAIN disk :
               /\ ~is_path_excluded_by_pattern(f, config.exclude_patterns,
                                               case_sensitive_matching)
               /\ is_path_included_by_pattern(f, config.include_patterns,
                                              case_sensitive_matching)
               /\ f \notin exclude_files_of_run}
    IN [i \in 1..Cardinality(included_files_set) |->
           CHOOSE x \in included_files_set :
              Cardinality({y \in included_files_set : PathLess(y, x)}) = i - 1]

\* markdown_generator.py: generate_markdown: one section for each processed
\* file, under its relative path.
generate_markdown(processed_files) == [text |-> <<>>, sections |-> processed_files]

\* The relative paths of the sections of a document.
SectionPaths(doc) == {doc.sections[i].relative_path : i \in 1..Len(doc.sections)}

\* run: load_config.
RunLoadConfig ==
    /\ u_pc = "start"
    /\ Len(u_written) < MaxRuns
    /\ u_effective_config' =
          Some(load_config(u_user_config, u_cli.output_file_name,
                           u_cli.include_patterns_override))
    /\ u_pc' = "loaded"
    /\ UNCHANGED <<u_disk, u_user_config, u_cli, u_processed_results, u_written>>
    /\ UNCHANGED p_vars
    /\ UNCHANGED s_vars
    /\ UNCHANGED r_vars
    /\ UNCHANGED c_vars

\* run: _scan_project_files finds no file: typer.Exit() before anything is
\* processed or written.
RunNoFilesExit ==
    /\ u_pc = "loaded"
    /\ files_to_scan(u_disk, u_effective_config.v) = <<>>
    /\ u_written' = Append(u_written, None)
    /\ u_pc' = "start"
    /\ UNCHANGED <<u_disk, u_user_config, u_cli, u_effective_config,
                   u_processed_results>>
    /\ UNCHANGED p_vars
    /\ UNCHANGED s_vars
    /\ UNCHANGED r_vars
    /\ UNCHANGED c_vars

\* run: _orchestrate_scan: the files scanned, then each of them processed.
RunOrchestrateScan ==
    /\ u_pc = "loaded"
    /\ LET files == files_to_scan(u_disk, u_effective_config.v)
       IN /\ files # <<>>
          /\ u_processed_results' =
                [i \in 1..Len(files) |->
                    [relative_path |-> files[i], content |-> u_disk[files[i]]]]
    /\ u_pc' = "scanned"
    /\ UNCHANGED <<u_disk, u_user_config, u_cli, u_effective_config, u_written>>
    /\ UNCHANGED p_vars
    /\ UNCHANGED s_vars
    /\ UNCHANGED r_vars
    /\ UNCHANGED c_vars

\* run: --dry-run: typer.Exit() before anything is written.
RunDryRunExit ==
    /\ u_pc = "scanned"
    /\ u_cli.dry_run
    /\ u_written' = Append(u_written, None)
    /\ u_pc' = "start"
    /\ UNCHANGED <<u_disk, u_user_config, u_cli, u_effective_config,
                   u_processed_results>>
    /\ UNCHANGED p_vars
    /\ UNCHANGED s_vars
    /\ UNCHANGED r_vars
    /\ UNCHANGED c_vars

\* run: generate_markdown and _write_markdown_output.
RunWriteOutput ==
    /\ u_pc = "scanned"
    /\ ~u_cli.dry_run
    /\ LET markdown_content == generate_markdown(u_processed_results)
           output_file_path == u_effective_config.v.output_file
       IN /\ u_disk' = [f \in DOMAIN u_disk \cup {output_file_path} |->
                           IF f = output_file_path THEN markdown_content
                           ELSE u_disk[f]]
          /\ u_written' = Append(u_written, Some(markdown_content))
    /\ u_pc' = "start"
    /\ UNCHANGED <<u_user_config, u_cli, u_effective_config, u_processed_results>>
    /\ UNCHANGED p_vars
    /\ UNCHANGED s_vars
    /\ UNCHANGED r_vars
    /\ UNCHANGED c_vars

\* The names given to the output file other than the default one.
OutputNames == {<<"o", ".", "m", "d">>, <<"o", ".", "b", "i", "n">>}

\* What the settings file holds: no file; the output file renamed; renamed
\* and excluded by name; another file excluded by name.
UserConfigs ==
    {None,
     Some([output_file |-> <<"o", ".", "m", "d">>]),
     Some([output_file |-> <<"o", ".", "m", "d">>,
           exclude_files |-> << <<"o", ".", "m", "d">> >>]),
     Some([exclude_files |-> << <<"b", ".", "m", "d">> >>])}

\* The source files of the projects.
SourceSets == {{<<"a", ".", "p", "y">>}, {<<"a", ".", "p", "y">>, <<"b", ".", "m", "d">>}}

UInit ==
    /\ u_user_config \in UserConfigs
    /\ \E sources \in SourceSets :
          u_disk = [f \in sources \cup (IF u_user_config.some
                                        THEN {DEFAULT_CONFIG_FILENAME} ELSE {}) |->
                       IF f = DEFAULT_CONFIG_FILENAME THEN Text(<<123, 125>>)
                       ELSE Text(<<65, 10>>)]
    /\ u_cli \in [output_file_name : {None} \cup {Some(n) : n \in OutputNames},
                  include_patterns_override :
                      {None, Some(<< <<"*", ".", "p", "y">> >>),
                       Some(<< <<"*", ".", "m", "d">> >>)},
                  dry_run : BOOLEAN]
    /\ u_effective_config = None
    /\ u_processed_results = <<>>
    /\ u_pc = "start"
    /\ u_written = <<>>
    /\ ClassifierIdle
    /\ ScannerIdle
    /\ OrchestratorIdle
    /\ CallsIdle

UNext ==
    \/ RunLoadConfig
    \/ RunNoFilesExit
    \/ RunOrchestrateScan
    \/ RunDryRunExit
    \/ RunWriteOutput

\* The run command given MaxRuns times, one run after the other.
SpecRun == UInit /\ [][UNext]_vars

(***************************************************************************)
(* Properties of the scanner (checked under SpecScan).                     *)
(***************************************************************************)
ScanDone == s_pc = "done"
\* The paths of the list returned.
Returned_paths == {s_result.v[i] : i \in 1..Len(s_result.v)}
\* The bare name of a directory.
BareName(d) == Parts(d)[Len(Parts(d))]
\* The directories of the project below its root.
ProjectDirs == AllDirs \ {<<>>}
\* The directory is named by exclude_dirs, by bare name or by relative path.
NamedByExcludeDirs(d) ==
    BareName(d) \in s_config.exclude_dirs \/ d \in s_config.exclude_dirs

\* C1: for every scan and every directory d whose bare name or relative path
\* is in exclude_dirs, no file located under d is in the list returned.
C1_NoFileUnderExcludedDir ==
    ScanDone =>
      \A d \in ProjectDirs :
         NamedByExcludeDirs(d) => \A f \in Returned_paths : ~IsBelow(f, d)

\* C2: once the pruning rule has excluded a directory, no step of the walk
\* lists its entries, resolves or stats a file below it, or evaluates one of
\* its subdirectories.
C2_NothingBelowPrunedIsTouched ==
    \A d \in s_pruned :
       /\ d \notin s_listed
       /\ \A x \in s_listed \cup s_evaluated \cup s_resolved \cup s_statted :
             ~IsBelow(x, d)

\* The relative path matches one of the glob patterns, case-folded.
MatchesSome(rel, patterns) ==
    \E i \in 1..Len(patterns) : fnmatch(lower(rel), lower(patterns[i]))
MatchesBoth(rel) ==
    /\ MatchesSome(rel, s_config.include_patterns)
    /\ MatchesSome(rel, s_config.exclude_patterns)

\* C3: a file whose relative path matches an include pattern and an exclude
\* pattern is never collected, and is absent from the list returned.
C3_ExcludeWinsOverInclude ==
    \A f \in RegularFiles :
       MatchesBoth(f) =>
          /\ f \notin s_included
          /\ ScanDone => f \notin Returned_paths

\* C3 witness: the walk has filtered a file matching both kinds of pattern,
\* and returned other files.
C3_Witness ==
    /\ ScanDone
    /\ Returned_paths # {}
    /\ \E f \in RegularFiles : MatchesBoth(f) /\ f \in s_resolved

(***************************************************************************)
(* The scan as a function of the tree and the settings.                    *)
(***************************************************************************)
\* The walk reaches the directory: it is the scan root, or a child the
\* pruning rule keeps of a directory the walk reaches.
RECURSIVE Walked(_)
Walked(d) ==
    \/ d = s_root
    \/ \E q \in AllDirs, n \in DirNames :
          /\ PathJoin(q, n) = d
          /\ IsRelativeTo(q, s_root)
          /\ ~DirPruned(q, n)
          /\ Walked(q)

\* The file entries of the directories the walk reaches.
WalkedEntries ==
    UNION {{PathJoin(d, n) : n \in walk_filenames(d)} :
             d \in {q \in AllDirs : Walked(q)}}

\* The limit in bytes, as the settings give it.
SizeLimit == s_config.max_file_size_kb * 1024

\* The resolved path passes the pattern rules and the exclude_files rule.
PassesPathRules(f) ==
    /\ InProject(f)
    /\ ~is_path_excluded_by_pattern(f, s_config.exclude_patterns, FALSE)
    /\ \/ s_config.include_patterns = <<>>
       \/ MatchesSome(f, s_config.include_patterns)
    /\ f \notin exclude_files_abs

\* The resolved paths the file loop has looked at.
SeenFiles == {resolve(e) : e \in s_resolved}

\* The entry makes the scan raise: it resolves outside the project root, or
\* the message about an explicitly excluded file cannot be made.
EntryRaises(e) ==
    LET f == resolve(e)
    IN \/ ~InProject(f)
       \/ /\ ~is_path_excluded_by_pattern(f, s_config.exclude_patterns, FALSE)
          /\ \/ s_config.include_patterns = <<>>
             \/ MatchesSome(f, s_config.include_patterns)
          /\ f \in exclude_files_abs
          /\ s_config.verbose
          /\ ~IsRelativeTo(f, s_root)

\* The files a scan of this tree under these settings is to return.
ExpectedOutput ==
    {f \in {resolve(e) : e \in WalkedEntries} :
        /\ PassesPathRules(f)
        /\ f \notin s_statfail
        /\ s_size[f] <= SizeLimit}

\* C12 (as claimed): among the files passing the pattern and exclude_files
\* rules, a file is left out for its size exactly when the size is above
\* max_file_size_kb * 1024, and an empty file is always within the limit.
C12_SizeLimitEmptyAlwaysWithin ==
    ScanDone =>
      \A f \in SeenFiles :
         (PassesPathRules(f) /\ f \notin s_statfail) =>
            /\ f \in Returned_paths <=> s_size[f] <= SizeLimit
            /\ s_size[f] = 0 => f \in Returned_paths

\* C12 (amended): as claimed, the empty file being within the limit when
\* max_file_size_kb is not negative.
C12_SizeLimitStrictlyGreater ==
    ScanDone =>
      \A f \in SeenFiles :
         (PassesPathRules(f) /\ f \notin s_statfail) =>
            /\ f \in Returned_paths <=> s_size[f] <= SizeLimit
            /\ (s_size[f] = 0 /\ s_config.max_file_size_kb >= 0) =>
                  f \in Returned_paths

\* C12 witness: a file of exactly the limit returned, next to an empty one.
C12_Witness ==
    /\ ScanDone
    /\ \E f \in Returned_paths : s_size[f] = SizeLimit /\ SizeLimit = 1024
    /\ \E f \in Returned_paths : s_size[f] = 0

\* C13: a file whose size cannot be obtained is left out, every other
\* qualifying file is returned, and the failure raises nothing, also under
\* stop_on_error.
C13_StatFailureIsExclusion ==
    /\ ScanDone =>
          /\ \A f \in s_statfail : f \notin Returned_paths
          /\ \A f \in ExpectedOutput : f \in Returned_paths
    /\ s_pc = "raised" => \E e \in s_resolved : EntryRaises(e)

\* C13 witness: a scan under stop_on_error that asked for the size of a file
\* whose stat() fails, and returned the others.
C13_Witness ==
    /\ ScanDone
    /\ s_config.stop_on_error
    /\ \E f \in s_statfail : f \in s_statted
    /\ Returned_paths # {}

\* C14: scan_project never raises for a file entry met during the walk.
C14_ScanNeverRaises == s_pc # "raised"

\* The list holds no path twice.
NoDuplicates(list) ==
    \A i, j \in 1..Len(list) : i # j => list[i] # list[j]

\* C15 (as claimed): the list returned holds no path twice and is sorted
\* ascending by path string.
C15_SortedByPathString ==
    ScanDone =>
      /\ NoDuplicates(s_result.v)
      /\ \A i, j \in 1..Len(s_result.v) :
            i < j => StrLess(s_result.v[i], s_result.v[j])

\* C15 (amended): the list returned holds no path twice and is sorted
\* ascending by path, the paths compared component by component.
C15_SortedByPathParts ==
    ScanDone =>
      /\ NoDuplicates(s_result.v)
      /\ \A i, j \in 1..Len(s_result.v) :
            i < j => PartsLess(Parts(s_result.v[i]), Parts(s_result.v[j]))

\* C15 witness: two entries resolving to the same path, returned once, in a
\* list whose order by components is not its order by string.
C15_Witness ==
    /\ ScanDone
    /\ \E e1, e2 \in s_resolved :
          e1 # e2 /\ resolve(e1) = resolve(e2) /\ resolve(e1) \in Returned_paths
    /\ \E i, j \in 1..Len(s_result.v) :
          i < j /\ StrLess(s_result.v[j], s_result.v[i])

\* C16: the outcome of a scan is a function of the tree and the settings:
\* whatever order the walk lists siblings in, the same list is returned, or
\* the scan raises.
C16_ScanIsOrderIndependent ==
    /\ ScanDone =>
          /\ s_result = Some(sorted(ExpectedOutput))
          /\ \A e \in WalkedEntries : ~EntryRaises(e)
    /\ s_pc = "raised" => \E e \in WalkedEntries : EntryRaises(e)

\* C16 witness: a scan that walked two sibling directories, in either
\* order, and returned files of both.
C16_Witness ==
    /\ ScanDone
    /\ \E f, g \in Returned_paths :
          IsBelow(f, <<"b">>) /\ IsBelow(g, <<"s">>)

\* C17: with include_patterns empty, every file of a directory the walk
\* keeps that no exclude pattern matches, that is not in exclude_files and is
\* not over the size limit is returned.
C17_EmptyIncludeListIncludesAll ==
    (ScanDone /\ s_config.include_patterns = <<>>) =>
      \A d \in AllDirs, n \in FileNames :
         LET f == PathJoin(d, n)
         IN (/\ Walked(d)
             /\ ~is_path_excluded_by_pattern(f, s_config.exclude_patterns, FALSE)
             /\ f \notin exclude_files_abs
             /\ f \notin s_statfail
             /\ s_size[f] <= SizeLimit) => f \in Returned_paths

\* C17 witness: files of both names returned under an empty include list.
C17_Witness ==
    /\ ScanDone
    /\ s_config.include_patterns = <<>>
    /\ \E f, g \in Returned_paths :
          endswith(f, <<".", "p">>) /\ endswith(g, <<".", "x">>)

\* C18: the file an exclude_files entry resolves to is never collected nor
\* returned; a file of the same name elsewhere is returned when the other
\* rules let it through.
C18_ExcludeFilesExactPath ==
    \A i \in 1..Len(s_config.exclude_files) :
       LET x == resolve(s_config.exclude_files[i])
       IN /\ x \notin s_included
          /\ ScanDone =>
                /\ x \notin Returned_paths
                /\ \A f \in ExpectedOutput :
                      (f # x /\ BareName(f) = BareName(x)) => f \in Returned_paths

\* C18 witness: the excluded file matched an include pattern and no exclude
\* pattern and was left out; a file of its name elsewhere was returned.
C18_Witness ==
    /\ ScanDone
    /\ s_config.include_patterns # <<>>
    /\ \E i \in 1..Len(s_config.exclude_files) :
          LET x == resolve(s_config.exclude_files[i])
          IN /\ x \in SeenFiles
             /\ MatchesSome(x, s_config.include_patterns)
             /\ ~is_path_excluded_by_pattern(x, s_config.exclude_patterns, FALSE)
             /\ \E f \in Returned_paths : f # x /\ BareName(f) = BareName(x)

\* C19: scanning a strict subdirectory of the project root returns only
\* files under the scan root, and the rules are put to paths relative to
\* the project root: an exclude_dirs entry naming a directory by that path
\* prunes it.
C19_OnlyFilesUnderScanRoot ==
    (ScanDone /\ s_root # <<>>) =>
      /\ \A f \in Returned_paths : IsBelow(f, s_root)
      /\ \A d \in s_evaluated : d \in s_config.exclude_dirs => d \in s_pruned

\* The string without its trailing '/' and '*' characters.
RECURSIVE StripSlashStar(_)
StripSlashStar(q) ==
    IF q # <<>> /\ q[Len(q)] \in {"/", "*"}
    THEN StripSlashStar(SubSeq(q, 1, Len(q) - 1))
    ELSE q

\* The pattern names a directory: it ends in '/' or in '/*'.
EndsInSlashOrSlashStar(q) ==
    \/ Len(q) >= 1 /\ q[Len(q)] = "/"
    \/ Len(q) >= 2 /\ q[Len(q) - 1] = "/" /\ q[Len(q)] = "*"

\* The directory prefix a pattern excludes everything under.
PrefixOf(q) ==
    IF EndsInSlashOrSlashStar(q) THEN StripSlashStar(q) \o <<"/">>
    ELSE q \o <<"/">>

\* The rule as stated: some pattern glob-matches the path or names a
\* directory prefix of it, both lower-cased.
ExcludedAsStated(p) ==
    \E i \in 1..Len(s_config.exclude_patterns) :
       LET q == lower(s_config.exclude_patterns[i])
           pl == lower(p)
       IN \/ fnmatch(pl, q)
          \/ /\ Len(pl) >= Len(PrefixOf(q))
             /\ SubSeq(pl, 1, Len(PrefixOf(q))) = PrefixOf(q)

\* C24: a relative path is excluded by exclude_patterns exactly when some
\* pattern, both lower-cased, glob-matches it, or ends in '/' or '/*' and
\* the path starts with the pattern stripped of its trailing '/' and '*'
\* followed by '/', or does not end so and the path starts with the pattern
\* followed by '/'. The scan prunes every such directory and collects no
\* such file, so no file under a directory named by a pattern is returned.
C24_ExcludedIffGlobOrPrefix ==
    /\ \A p \in s_evaluated \cup {f \in SeenFiles : InProject(f)} :
          is_path_excluded_by_pattern(p, exclude_patterns,
                                      case_sensitive_matching)
            <=> ExcludedAsStated(p)
    /\ \A d \in s_evaluated : ExcludedAsStated(d) => d \in s_pruned
    /\ \A d \in s_pruned : ExcludedAsStated(d) \/ NamedByExcludeDirs(d)
    /\ \A f \in s_included : ~ExcludedAsStated(f)
    /\ ScanDone =>
          \A f \in Returned_paths :
             \A i \in 1..Len(s_config.exclude_patterns) :
                LET dir == PrefixOf(lower(s_config.exclude_patterns[i]))
                IN ~(Len(f) >= Len(dir) /\ lower(SubSeq(f, 1, Len(dir))) = dir)

\* C24 witness: a finished scan that returned files and left one out which
\* only the directory prefix of a pattern excludes, no glob matching it.
C24_Witness ==
    /\ ScanDone
    /\ Returned_paths # {}
    /\ \E f \in SeenFiles :
          /\ InProject(f)
          /\ ExcludedAsStated(f)
          /\ ~MatchesSome(f, s_config.exclude_patterns)

\* The string with every letter in the other case.
SwapCaseOf ==
    [c \in DOMAIN CharCode |->
        IF CharCode[c] \in 65..90 THEN Chr(CharCode[c] + 32)
        ELSE IF CharCode[c] \in 97..122 THEN Chr(CharCode[c] - 32)
        ELSE c]
SwapCase(s) == [i \in 1..Len(s) |-> SwapCaseOf[s[i]]]
SwapCaseAll(patterns) == [i \in 1..Len(patterns) |-> SwapCase(patterns[i])]

\* The paths a scan has put to the patterns: the directories of the pruning
\* loop and the resolved files of the file loop.
PathsMatched == s_evaluated \cup {f \in SeenFiles : InProject(f)}

\* C25: pattern matching in a scan is case-insensitive: whether a path is
\* matched by exclude_patterns or by include_patterns does not change when
\* the letter case of the path or of the patterns is changed.
C25_MatchingIgnoresCase ==
    \A p \in PathsMatched :
       /\ is_path_excluded_by_pattern(SwapCase(p), exclude_patterns,
                                      case_sensitive_matching)
            <=> is_path_excluded_by_pattern(p, exclude_patterns,
                                            case_sensitive_matching)
       /\ is_path_excluded_by_pattern(p, SwapCaseAll(exclude_patterns),
                                      case_sensitive_matching)
            <=> is_path_excluded_by_pattern(p, exclude_patterns,
                                            case_sensitive_matching)
       /\ is_path_included_by_pattern(SwapCase(p), include_patterns,
                                      case_sensitive_matching)
            <=> is_path_included_by_pattern(p, include_patterns,
                                            case_sensitive_matching)
       /\ is_path_included_by_pattern(p, SwapCaseAll(include_patterns),
                                      case_sensitive_matching)
            <=> is_path_included_by_pattern(p, include_patterns,
                                            case_sensitive_matching)

\* C25 witness: a finished scan left out a file that an exclude pattern
\* written in upper case matches only when case is ignored, and returned a
\* file that an include pattern written in upper case matches likewise.
C25_Witness ==
    /\ ScanDone
    /\ \E f \in SeenFiles :
          /\ InProject(f)
          /\ f \notin Returned_paths
          /\ is_path_excluded_by_pattern(f, exclude_patterns, FALSE)
          /\ ~is_path_excluded_by_pattern(f, exclude_patterns, TRUE)
    /\ \E f \in Returned_paths :
          /\ include_patterns # <<>>
          /\ ~is_path_included_by_pattern(f, include_patterns, TRUE)

\* The pattern i has the form 'P/' or 'P/*' and d is the directory P; no
\* other rule excludes d.
NamedAsDirectoryPattern(d, i) ==
    LET q == lower(s_config.exclude_patterns[i])
    IN /\ EndsInSlashOrSlashStar(q)
       /\ lower(d) = StripSlashStar(q)
       /\ ~NamedByExcludeDirs(d)
       /\ \A j \in 1..Len(s_config.exclude_patterns) :
             j # i => ~is_path_excluded_by_pattern(
                          d, <<s_config.exclude_patterns[j]>>, FALSE)

\* C27: an exclude pattern 'P/' or 'P/*' does not prune the directory P
\* itself when no other rule excludes it: the walk descends into P, leaves
\* out each file directly in P by the pattern, and prunes each
\* subdirectory of P.
C27_DirectoryPatternKeepsDirItself ==
    \A d \in s_evaluated :
       \A i \in 1..Len(s_config.exclude_patterns) :
          NamedAsDirectoryPattern(d, i) =>
             /\ d \notin s_pruned
             /\ ScanDone => d \in s_listed
             /\ \A f \in FileNames :
                   /\ PathJoin(d, f) \notin s_included
                   /\ is_path_excluded_by_pattern(
                         PathJoin(d, f), <<s_config.exclude_patterns[i]>>,
                         case_sensitive_matching)
             /\ \A n \in walk_dirnames(d) :
                   PathJoin(d, n) \in s_evaluated => PathJoin(d, n) \in s_pruned

\* C27 witness: a finished scan that went into the directory named by such
\* a pattern, looked at its files, pruned a subdirectory of it, and
\* returned files from elsewhere.
C27_Witness ==
    /\ ScanDone
    /\ Returned_paths # {}
    /\ \E d \in s_listed :
          /\ \E i \in 1..Len(s_config.exclude_patterns) :
                NamedAsDirectoryPattern(d, i)
          /\ \E f \in FileNames : PathJoin(d, f) \in s_resolved
          /\ \E n \in DirNames : PathJoin(d, n) \in s_pruned

\* The outcome of the same scan run without verbose and without a status
\* indicator: it raises when an entry of a directory the walk reaches
\* resolves outside the project root, and returns the sorted files otherwise.
QuietOutcome ==
    IF \E e \in WalkedEntries : ~InProject(resolve(e))
    THEN [kind |-> "raised"]
    ELSE [kind |-> "returned", list |-> sorted(ExpectedOutput)]

\* The outcome of the scan, once it is over.
Outcome ==
    IF s_pc = "raised" THEN [kind |-> "raised"]
    ELSE [kind |-> "returned", list |-> s_result.v]

\* C28 (as claimed): the outcome of a scan, the list returned or the fact
\* that it raises, is that of the same scan without verbose and without a
\* status indicator.
C28_OutcomeIgnoresVerboseAndStatus ==
    s_pc \in {"done", "raised"} => Outcome = QuietOutcome

\* The paths of the symbolic links to directories.
DirLinkPaths == {PathJoin(l.dir, l.name) : l \in s_dirlinks}

\* The walk lists symbolic links to directories without following them, and
\* lists no directory twice; a finished scan has listed each directory the
\* pruning rule keeps below the scan root, and put every link in such a
\* directory to the pruning rule.
EachDirectoryOnce ==
    /\ s_relisted = {}
    /\ \A i \in 1..Len(s_stack) : ~islink(s_stack[i])
    /\ \A i, j \in 1..Len(s_stack) : i # j => s_stack[i] # s_stack[j]
    /\ s_pc = "walking" => \A i \in 1..Len(s_stack) : s_stack[i] \notin s_listed
    /\ s_listed \cap DirLinkPaths = {}
    /\ \A x \in s_listed \cup s_resolved : \A l \in DirLinkPaths : ~IsBelow(x, l)
    /\ ScanDone =>
          /\ s_listed = {d \in AllDirs : Walked(d)}
          /\ \A l \in s_dirlinks : Walked(l.dir) => PathJoin(l.dir, l.name) \in s_evaluated

\* The scan is over: it has returned its list, or raised.
ScanOver == s_pc \in {"done", "raised"}

\* C29: scan_project terminates on every tree, symbolic links to directories
\* (cycles included) being listed but not followed, and it lists each
\* directory the pruning rule keeps below the scan root exactly once.
C29_TerminatesEachDirectoryOnce == []EachDirectoryOnce /\ <>ScanOver

\* C29 witness: a finished scan of a tree with a symbolic link back to the
\* project root, which was put to the pruning rule, kept, and not entered.
C29_Witness ==
    /\ ScanDone
    /\ Returned_paths # {}
    /\ \E l \in s_dirlinks :
          /\ l.target = <<>>
          /\ PathJoin(l.dir, l.name) \in s_evaluated \ s_pruned
          /\ PathJoin(l.dir, l.name) \notin s_listed

(***************************************************************************)
(* Properties of the classifier (checked under SpecProc).                  *)
(***************************************************************************)
Returned == p_pc = "returned"
Raised == p_pc = "raised"
ReadOk == ~p_file.err.some

\* The window the binary heuristic is specified to look at, and its NULs.
WindowLen == IF Len(p_file.bytes) < 4096 THEN Len(p_file.bytes) ELSE 4096
WindowNulls == Cardinality({j \in 1..WindowLen : p_file.bytes[j] = 0})
FlaggedBinary == WindowNulls * 100 > 10 * WindowLen

Utf8Valid == Utf8Decode(p_file.bytes).ok
Cp1252Valid == Cp1252Decode(p_file.bytes).ok

Statuses == {"text_content", "binary_file", "read_error", "skipped_access_error"}

\* C4: every call of process_file returns one result with one of the four
\* statuses or raises; it raises only with stop_on_error set, on an OS read
\* failure or a total decode failure; and the status is that of the first
\* applicable step: OS read failure, empty content, null-byte heuristic,
\* UTF-8 decode, cp1252 decode, decode failure.
C4_StatusByFirstApplicableStep ==
    p_pc # "call" =>
      /\ p_out.kind \in {"returned", "raised"}
      /\ Returned => p_out.status \in Statuses
      /\ Raised => p_stop /\ (~ReadOk \/ (~Utf8Valid /\ ~Cp1252Valid))
      /\ CASE ~ReadOk ->
                Raised \/ p_out.status = "skipped_access_error"
           [] ReadOk /\ p_file.bytes = <<>> ->
                Returned /\ p_out.status = "text_content"
           [] ReadOk /\ p_file.bytes # <<>> /\ FlaggedBinary ->
                Returned /\ p_out.status = "binary_file"
           [] ReadOk /\ p_file.bytes # <<>> /\ ~FlaggedBinary /\ Utf8Valid ->
                /\ Returned /\ p_out.status = "text_content"
                /\ p_out.encoding_used = Some("utf-8")
           [] ReadOk /\ p_file.bytes # <<>> /\ ~FlaggedBinary /\ ~Utf8Valid
                /\ Cp1252Valid ->
                /\ Returned /\ p_out.status = "text_content"
                /\ p_out.encoding_used = Some("cp1252")
           [] OTHER ->
                Raised \/ p_out.status = "read_error"

\* C4 witness: a call that fell through every step to the decode failure.
C4_Witness == Returned /\ p_out.status = "read_error"

\* C5: binary detection looks only at the first 4096 bytes of a non-empty
\* file: exactly 10% NULs there is not binary, strictly more is binary_file
\* with no content, and nothing after offset 4096 changes the decision.
C5_BinaryByNullsInWindow ==
    (p_pc # "call" /\ ReadOk /\ p_file.bytes # <<>>) =>
      /\ WindowNulls * 100 = 10 * WindowLen =>
            ~(Returned /\ p_out.status = "binary_file")
      /\ WindowNulls * 100 > 10 * WindowLen =>
            Returned /\ p_out.status = "binary_file" /\ p_out.content = None
      /\ WindowNulls * 100 < 10 * WindowLen =>
            ~(Returned /\ p_out.status = "binary_file")

\* C5 witness: a file longer than the window, whose whole content holds more
\* than 10% NULs but whose first 4096 bytes hold none, classified as text.
C5_Witness ==
    /\ Returned /\ p_out.status = "text_content"
    /\ Len(p_file.bytes) > 4096
    /\ WindowNulls = 0
    /\ count_nulls(p_file.bytes) * 100 > 10 * Len(p_file.bytes)


\* The text a text_content result was decoded from.
DecodedText == bytes_decode(p_file.bytes, p_out.encoding_used.v).text

Count(s, c) == Cardinality({j \in 1..Len(s) : s[j] = c})
\* The line terminators \r\n, lone \r and \n of a text.
Terminators(s) ==
    Count(s, LF) + Count(s, CR)
    - Cardinality({j \in 1..(Len(s) - 1) : s[j] = CR /\ s[j + 1] = LF})

\* C7: the content of a text result holds no carriage return, and each
\* \r\n, each lone \r and each \n of the decoded text appears in it as a
\* single \n.
C7_EachTerminatorBecomesOneLF ==
    (Returned /\ p_out.status = "text_content") =>
      /\ Count(p_out.content.v, CR) = 0
      /\ Count(p_out.content.v, LF) = Terminators(DecodedText)

\* The decoded text with each \r\n and each lone \r replaced by \n.
RECURSIVE CrLfToLf(_)
CrLfToLf(s) ==
    IF \A j \in 1..Len(s) : s[j] # CR THEN s
    ELSE IF s[1] = CR /\ Len(s) > 1 /\ s[2] = LF
         THEN <<LF>> \o CrLfToLf(SubSeq(s, 3, Len(s)))
    ELSE IF s[1] = CR THEN <<LF>> \o CrLfToLf(Tail(s))
    ELSE <<s[1]>> \o CrLfToLf(Tail(s))

\* C8: the content of a text result is the decoded text with each \r\n and
\* each lone \r replaced by \n and nothing else changed.
C8_OnlyLineEndingsNormalized ==
    (Returned /\ p_out.status = "text_content") =>
      p_out.content.v = CrLfToLf(DecodedText)

\* C9: content invalid under both encodings: without stop_on_error a
\* read_error whose message names utf-8 and cp1252 and carries the last
\* decode error; with stop_on_error the last encoding's decode error raised.
C9_TotalDecodeFailure ==
    (p_pc # "call" /\ ReadOk /\ p_file.bytes # <<>> /\ ~FlaggedBinary
       /\ ~Utf8Valid /\ ~Cp1252Valid) =>
      LET e == Cp1252Decode(p_file.bytes)
          last == [type |-> "UnicodeDecodeError", codec |-> e.codec,
                   start |-> e.start]
      IN /\ ~p_stop =>
               /\ Returned /\ p_out.status = "read_error"
               /\ p_out.error_message.some
               /\ p_out.error_message.v.encodings = <<"utf-8", "cp1252">>
               /\ p_out.error_message.v.last_error = Some(last)
         /\ p_stop => Raised /\ p_out.exc = last

\* C9 witness: the decode error raised under stop_on_error.
C9_Witness ==
    Raised /\ p_out.exc.type = "UnicodeDecodeError" /\ Len(p_file.bytes) > 1

\* C10: an OS-level read failure: without stop_on_error a
\* skipped_access_error whose message holds the error's type name and text;
\* with stop_on_error the OS error itself reaches the caller.
C10_OsReadFailure ==
    (p_pc # "call" /\ ~ReadOk) =>
      /\ ~p_stop =>
            /\ Returned /\ p_out.status = "skipped_access_error"
            /\ p_out.error_message.some
            /\ p_out.error_message.v.kind = p_file.err.v.type
            /\ p_out.error_message.v.detail = p_file.err.v.detail
      /\ p_stop => Raised /\ p_out.exc = p_file.err.v

\* C10 witness: a permission error propagated under stop_on_error.
C10_Witness == Raised /\ p_out.exc.type = "PermissionError"

\* C11: a file whose byte content is empty is classified text_content with
\* the empty string as content and utf-8 as encoding_used, never as binary or
\* as an error, whatever stop_on_error is.
C11_EmptyFileIsEmptyText ==
    (p_pc # "call" /\ ReadOk /\ p_file.bytes = <<>>) =>
      /\ Returned
      /\ p_out.status = "text_content"
      /\ p_out.content = Some(<<>>)
      /\ p_out.encoding_used = Some("utf-8")
      /\ p_out.error_message = None

\* C11 witness: an empty file classified under stop_on_error.
C11_Witness ==
    Returned /\ ReadOk /\ p_file.bytes = <<>> /\ p_stop
      /\ p_out.status = "text_content"

\* C26: every result of process_file carries the path it was called with and
\* a relative path (the path below the project root, or the base name when
\* the file is not under it), and its fields agree with its status:
\* text_content has content and encoding_used and no error message;
\* binary_file has none of the three; read_error and skipped_access_error
\* have a non-empty error message and no content.
C26_FieldsAgreeWithStatus ==
    Returned =>
      /\ p_out.path = p_path
      /\ p_out.relative_path =
            (IF p_path.inside THEN p_path.parts
             ELSE <<p_path.parts[Len(p_path.parts)]>>)
      /\ p_out.status = "text_content" =>
            /\ p_out.content.some /\ p_out.encoding_used.some
            /\ ~p_out.error_message.some
      /\ p_out.status = "binary_file" =>
            /\ ~p_out.content.some /\ ~p_out.encoding_used.some
            /\ ~p_out.error_message.some
      /\ p_out.status \in {"read_error", "skipped_access_error"} =>
            /\ p_out.error_message.some
            /\ p_out.error_message.v.text # ""
            /\ ~p_out.content.some

\* C26 witness: a read_error result for a file outside the project root.
C26_Witness ==
    Returned /\ ~p_path.inside /\ p_out.status = "read_error"
      /\ p_out.relative_path = <<"m.p">>

(***************************************************************************)
(* Properties of the orchestrator (checked under SpecPar).                 *)
(***************************************************************************)
\* What the batch is to give: the result of every file, in the order of the
\* list handed over, which is sorted by path.
ExpectedResults ==
    [i \in 1..Len(r_files_to_scan) |-> future_result(r_files_to_scan[i], r_stop)]

SomeFileRaises ==
    \E i \in 1..Len(r_files_to_scan) :
       future_result(r_files_to_scan[i], r_stop).kind = "raised"

\* C20: the list of results returned is sorted by relative path and is the
\* same list whatever order the workers complete in.
C20_ResultsSortedWhateverCompletionOrder ==
    /\ r_pc = "returned" =>
          /\ \A i, j \in 1..Len(r_out.v) :
                i < j => PartsLess(r_out.v[i].relative_path,
                                   r_out.v[j].relative_path)
          /\ r_out.v = ExpectedResults
    /\ r_pc = "exit" => SomeFileRaises
    /\ r_pc = "returned" => ~SomeFileRaises

\* C20 witness: results returned sorted that completed in another order.
C20_Witness ==
    /\ r_pc = "returned"
    /\ Len(r_out.v) = MaxFiles
    /\ r_processed_results # r_out.v

\* C21 (as claimed): under stop_on_error, once the loop has met a fatal error
\* and raised typer.Exit, no file whose processing had not started is
\* started; the function is left with exit code 1 and returns no list.
C21_StopOnErrorStopsDispatching ==
    /\ r_late = {}
    /\ r_pc = "exit" => r_exit_code = Some(1) /\ r_out = None

\* The results of the list returned that belong to the file i of the batch.
ResultsOf(i) ==
    {j \in 1..Len(r_out.v) : r_out.v[j].path = FilePathOf(r_files_to_scan[i].path)}

\* C22: without stop_on_error the batch is never aborted, whatever files
\* cannot be read or decoded and however the workers interleave: every call
\* runs to its end and every path of the batch has exactly one result in the
\* list returned, a failure showing as skipped_access_error or read_error.
C22_EveryFileYieldsOneResult ==
    ~r_stop =>
      /\ r_pc \notin {"shutdown", "exit"}
      /\ r_exit_code = None
      /\ Len(r_processed_results) + Cardinality(r_pending) = Len(r_files_to_scan)
      /\ r_pc = "returned" =>
            /\ \A i \in DOMAIN r_futures : r_futures[i] = "finished"
            /\ Len(r_out.v) = Len(r_files_to_scan)
            /\ \A i \in 1..Len(r_files_to_scan) :
                  /\ Cardinality(ResultsOf(i)) = 1
                  /\ \A j \in ResultsOf(i) :
                        /\ r_files_to_scan[i].file.err.some =>
                              r_out.v[j].status = "skipped_access_error"
                        /\ r_files_to_scan[i].file.bytes = <<157>> =>
                              r_out.v[j].status = "read_error"

\* C22 witness: a batch returned in full that held a file that could not be
\* read and a file that could not be decoded, collected out of order.
C22_Witness ==
    /\ ~r_stop
    /\ r_pc = "returned"
    /\ Len(r_out.v) = MaxFiles
    /\ \E j \in 1..Len(r_out.v) : r_out.v[j].status = "skipped_access_error"
    /\ \E j \in 1..Len(r_out.v) : r_out.v[j].status = "read_error"
    /\ r_processed_results # r_out.v

(***************************************************************************)
(* Properties of concurrent calls of process_file (checked under SpecConc).*)
(***************************************************************************)
\* C23: process_file is safe to run concurrently for distinct files: however
\* the steps of the calls interleave, each call ends with the result it
\* gives when run alone, and the arguments are left as they were.
C23_ConcurrentCallsAsAlone ==
    \A i \in DOMAIN c_calls :
       /\ c_pc[i] = "done" <=> c_out[i].some
       /\ c_pc[i] = "done" =>
             c_out[i].v = process_file(c_calls[i].file, c_calls[i].file_path,
                                       c_stop)
       /\ c_calls[i].file_path = FilePathOf(CallPaths[i])

\* C23 witness: a call has ended with text decoded by the fallback encoding
\* while another call, on a file nothing decodes, is between two attempts.
C23_Witness ==
    \E i, j \in DOMAIN c_calls :
       /\ i # j
       /\ c_pc[i] = "done"
       /\ c_out[i].v.kind = "returned"
       /\ c_out[i].v.encoding_used = Some("cp1252")
       /\ c_pc[j] = "decode"
       /\ c_frame[frame(j)].k = 2
       /\ c_calls[j].file.bytes = <<157>>

(***************************************************************************)
(* Properties of the run command given twice (checked under SpecRun).      *)
(***************************************************************************)
\* Both of the first two runs wrote their document.
WroteTwice == Len(u_written) >= 2 /\ u_written[1].some /\ u_written[2].some

\* C30: the run command given twice on an otherwise unchanged project with
\* the same configuration, whatever name output_file has from the settings
\* file or from --output-file, writes the same document both times: the file
\* the first run wrote is not among the files the second run aggregates.
C30_SecondRunWritesSameDocument ==
    WroteTwice =>
       /\ u_written[2] = u_written[1]
       /\ u_effective_config.v.output_file \notin SectionPaths(u_written[2].v)

====
